---------------------------- MODULE Spec2Model ----------------------------
(***************************************************************************)
(* Model of the quilt engine of our-daily-quilt (src/config.js):           *)
(* QuiltAppState, QuiltShape, ColorUtils, UserTracker.recordContribution   *)
(* and QuiltEngine.                                                        *)
(*                                                                         *)
(* Conventions                                                             *)
(*  - a hex colour string is a sequence of one-character strings, so that  *)
(*    string identity (===, Set.has) is tuple equality and hexToRgb is a   *)
(*    real parse;                                                          *)
(*  - lengths are integers.  The code's tolerance of 0.1 then never        *)
(*    separates two different values, and a split offset                   *)
(*    (extent * splitRatio) is drawn among the integer offsets the ratio   *)
(*    range [0.3, 0.7) can produce;                                        *)
(*  - getColorDifference is a square root; the model keeps the squared     *)
(*    distance and compares it with the squared threshold;                 *)
(*  - null is 0 for an id and "null" for a colour family;                  *)
(*  - generateId() returns an id never returned before: a counter.         *)
(***************************************************************************)
EXTENDS Integers, Sequences, FiniteSets, TLC

\* ===== CONFIGURATION (QUILT_CONFIG) =====
FREEZE_THRESHOLD == 20
MIN_SHAPE_SIZE == 40
COLOR_SIMILARITY_THRESHOLD == 35
QUILT_SIZE == 1000
DEFAULT_COLOR == <<"#", "f", "7", "b", "7", "3", "3">>

\* ===== BOUNDS OF THE MODEL =====
\* addColor calls per engine (valid calls; the submission counter is unbounded)
MaxSubmissions == 21
\* the first BranchDepth calls enumerate every random draw; later calls take
\* the first splittable shape, the preferred direction and the middle offset
BranchDepth == 3
\* addColor calls of the runs that enumerate every draw from initialize()
ScenarioCalls == 2
\* initialize() calls per engine in the runs that call it again
MaxInitializations == 2
\* colours each app page adds to the stored quilt
PageColors == 1
\* requests the image server receives
MaxRequests == 2

\* ===== INPUT COLOURS =====
\* "#f7b755": distance 34 from the default colour (similar), family orange
NEAR_COLOR == <<"#", "f", "7", "b", "7", "5", "5">>
\* "#f7b75e": distance 9 from NEAR_COLOR, 43 from the default colour
FAR_COLOR == <<"#", "f", "7", "b", "7", "5", "e">>
\* "#3282c8" (hue 208, family cyan) and "#3278c8" (hue 212, family blue):
\* distance 10 from each other, far from the default colour
CYAN_COLOR == <<"#", "3", "2", "8", "2", "c", "8">>
BLUE_COLOR == <<"#", "3", "2", "7", "8", "c", "8">>
\* "#32a0c8" (hue 196, family cyan): distance 30 from CYAN_COLOR, 40 from
\* BLUE_COLOR
TEAL_COLOR == <<"#", "3", "2", "a", "0", "c", "8">>
\* not parseable: five digits, and a non-hex digit
SHORT_COLOR == <<"#", "f", "f", "0", "0", "0">>
WORD_COLOR == <<"#", "g", "g", "0", "0", "0", "0">>

NULL_RGB == [r |-> -1, g |-> -1, b |-> -1]

\* ===== ColorUtils =====
\* parseInt(digit, 16) on the characters [a-f\d] matches, case-insensitive
HexDigits ==
  ("0" :> 0) @@ ("1" :> 1) @@ ("2" :> 2) @@ ("3" :> 3) @@ ("4" :> 4)
    @@ ("5" :> 5) @@ ("6" :> 6) @@ ("7" :> 7) @@ ("8" :> 8) @@ ("9" :> 9)
    @@ ("a" :> 10) @@ ("b" :> 11) @@ ("c" :> 12) @@ ("d" :> 13)
    @@ ("e" :> 14) @@ ("f" :> 15)
    @@ ("A" :> 10) @@ ("B" :> 11) @@ ("C" :> 12) @@ ("D" :> 13)
    @@ ("E" :> 14) @@ ("F" :> 15)

\* /^#?([a-f\d]{2})([a-f\d]{2})([a-f\d]{2})$/i ; null is NULL_RGB
HexToRgb(hex) ==
  LET body == IF Len(hex) > 0 /\ hex[1] = "#" THEN Tail(hex) ELSE hex
      byte(i) == 16 * HexDigits[body[i]] + HexDigits[body[i + 1]]
  IN  IF Len(body) = 6 /\ \A i \in 1..6 : body[i] \in DOMAIN HexDigits
        THEN [r |-> byte(1), g |-> byte(3), b |-> byte(5)]
        ELSE NULL_RGB

\* the value standing for Infinity: above every squared distance (3 * 255^2)
InfiniteDifference == 200000

\* dr*dr + dg*dg + db*db of getColorDifference, Infinity on a null
RgbDifferenceSquared(rgb1, rgb2) ==
  LET dr == rgb1.r - rgb2.r
      dg == rgb1.g - rgb2.g
      db == rgb1.b - rgb2.b
  IN  IF rgb1 = NULL_RGB \/ rgb2 = NULL_RGB
        THEN InfiniteDifference
        ELSE dr * dr + dg * dg + db * db

\* getColorDifference squared
GetColorDifferenceSquared(color1, color2) ==
  RgbDifferenceSquared(HexToRgb(color1), HexToRgb(color2))

\* the comparison made strict: a difference of exactly the threshold is
\* not similar
IsColorSimilarStrict(color1, color2) ==
  GetColorDifferenceSquared(color1, color2)
    < COLOR_SIMILARITY_THRESHOLD * COLOR_SIMILARITY_THRESHOLD

IsColorSimilar(color1, color2) ==
  GetColorDifferenceSquared(color1, color2)
    <= COLOR_SIMILARITY_THRESHOLD * COLOR_SIMILARITY_THRESHOLD

Max3(a, b, c) ==
  IF a >= b /\ a >= c THEN a ELSE IF b >= c THEN b ELSE c

Min3(a, b, c) ==
  IF a <= b /\ a <= c THEN a ELSE IF b <= c THEN b ELSE c

\* Math.round(num / den * 60) for den > 0: round half up
RoundHue(num, den) == (120 * num + den) \div (2 * den)

\* the hue ranges of getColorFamilyName
HueFamilyName(hue) ==
  IF hue >= 0 /\ hue < 30 THEN "red"
  ELSE IF hue >= 30 /\ hue < 60 THEN "orange"
  ELSE IF hue >= 60 /\ hue < 90 THEN "yellow"
  ELSE IF hue >= 90 /\ hue < 150 THEN "green"
  ELSE IF hue >= 150 /\ hue < 210 THEN "cyan"
  ELSE IF hue >= 210 /\ hue < 270 THEN "blue"
  ELSE IF hue >= 270 /\ hue < 330 THEN "purple"
  ELSE "pink"

\* if (hue < 0) hue += 360
NormalizeHue(rounded) == IF rounded < 0 THEN rounded + 360 ELSE rounded

\* the hue of getColorFamilyName for delta > 0
Hue(rgb, max, delta) ==
  NormalizeHue(IF max = rgb.r THEN RoundHue(rgb.g - rgb.b, delta)
               ELSE IF max = rgb.g THEN RoundHue(rgb.b - rgb.r, delta) + 120
               ELSE RoundHue(rgb.r - rgb.g, delta) + 240)

\* getColorFamilyName after the parse, with max and min of the channels
RgbFamilyName(rgb, max, min) ==
  IF rgb = NULL_RGB THEN "unknown"
  ELSE IF max - min = 0 THEN "gray"
  ELSE HueFamilyName(Hue(rgb, max, max - min))

\* the channels of getColorFamilyName
ChannelFamilyName(rgb) ==
  RgbFamilyName(rgb, Max3(rgb.r, rgb.g, rgb.b), Min3(rgb.r, rgb.g, rgb.b))

GetColorFamilyName(hexColor) == ChannelFamilyName(HexToRgb(hexColor))

\* ===== QuiltShape =====
\* localStorage 'quiltDeviceId' of the browser the engine runs in
DEVICE_ID == "device"

\* the shape's own id stored as its parentId
QuiltShapeOwnParent(id, type, color, position, parentId, contributorId, submissionIndex, colorFamily) ==
  [id |-> id, type |-> type, color |-> color, position |-> position,
   parentId |-> id, contributorId |-> contributorId,
   submissionIndex |-> submissionIndex, colorFamily |-> colorFamily]

\* the contributorId option ignored: the device's own id is stored
QuiltShapeOwnDevice(id, type, color, position, parentId, contributorId, submissionIndex, colorFamily) ==
  [id |-> id, type |-> type, color |-> color, position |-> position,
   parentId |-> parentId, contributorId |-> DEVICE_ID,
   submissionIndex |-> submissionIndex, colorFamily |-> colorFamily]

\* constructor(options)
QuiltShape(id, type, color, position, parentId, contributorId, submissionIndex, colorFamily) ==
  [id |-> id, type |-> type, color |-> color, position |-> position,
   parentId |-> parentId, contributorId |-> contributorId,
   submissionIndex |-> submissionIndex, colorFamily |-> colorFamily]

CanSplit(shape, direction) ==
  IF direction = "horizontal"
    THEN shape.position.height >= MIN_SHAPE_SIZE * 2
    ELSE shape.position.width >= MIN_SHAPE_SIZE * 2

GetValidSplitDirections(shape) ==
  (IF CanSplit(shape, "horizontal") THEN <<"horizontal">> ELSE <<>>)
    \o (IF CanSplit(shape, "vertical") THEN <<"vertical">> ELSE <<>>)

\* the cut taken a tenth of the extent further than the ratio drawn
SplitOffsetTenthFurther(extent, ratioPct) ==
  (extent * (ratioPct + 10) + 99) \div 100

\* extent * splitRatio for splitRatio = 0.3 + Math.random() * 0.4, as the
\* smallest integer offset whose ratio is at least ratioPct / 100
SplitOffset(extent, ratioPct) == (extent * ratioPct + 99) \div 100

\* both new shapes given the new colour
SplitRecolours(shape, newColor, direction, contributorId, submissionIndex, ratioPct, id1, id2) ==
  LET pos == shape.position
      splitHeight == SplitOffset(pos.height, ratioPct)
      splitWidth == SplitOffset(pos.width, ratioPct)
      pos1 == IF direction = "horizontal"
                THEN [pos EXCEPT !.height = splitHeight]
                ELSE [pos EXCEPT !.width = splitWidth]
      pos2 == IF direction = "horizontal"
                THEN [pos EXCEPT !.y = pos.y + splitHeight,
                                 !.height = pos.height - splitHeight]
                ELSE [pos EXCEPT !.x = pos.x + splitWidth,
                                 !.width = pos.width - splitWidth]
  IN  IF ~CanSplit(shape, direction) THEN <<>>
      ELSE << QuiltShape(id1, shape.type, newColor, pos1, shape.id,
                         shape.contributorId, shape.submissionIndex,
                         shape.colorFamily),
              QuiltShape(id2, shape.type, newColor, pos2, shape.id,
                         contributorId, submissionIndex,
                         shape.colorFamily) >>

\* split(newColor, direction, contributorId, submissionIndex); ratioPct is
\* the draw of Math.random(), id1 and id2 the two generateId() results.
\* The thrown Error is the empty sequence.
Split(shape, newColor, direction, contributorId, submissionIndex, ratioPct, id1, id2) ==
  LET pos == shape.position
      splitHeight == SplitOffset(pos.height, ratioPct)
      splitWidth == SplitOffset(pos.width, ratioPct)
      pos1 == IF direction = "horizontal"
                THEN [x |-> pos.x, y |-> pos.y,
                      width |-> pos.width, height |-> splitHeight]
                ELSE [x |-> pos.x, y |-> pos.y,
                      width |-> splitWidth, height |-> pos.height]
      pos2 == IF direction = "horizontal"
                THEN [x |-> pos.x, y |-> pos.y + splitHeight,
                      width |-> pos.width,
                      height |-> pos.height - splitHeight]
                ELSE [x |-> pos.x + splitWidth, y |-> pos.y,
                      width |-> pos.width - splitWidth,
                      height |-> pos.height]
  IN  IF ~CanSplit(shape, direction) THEN <<>>
      ELSE << QuiltShape(id1, shape.type, shape.color, pos1, shape.id,
                         shape.contributorId, shape.submissionIndex,
                         shape.colorFamily),
              QuiltShape(id2, shape.type, newColor, pos2, shape.id,
                         contributorId, submissionIndex,
                         shape.colorFamily) >>

\* ===== QuiltAppState =====
\* constructor(); a Map is the sequence of its entries in insertion order
NewAppState ==
  [submissionCount |-> 0, phase |-> "PRE_FREEZE",
   keyShapesColorArray |-> <<>>, shapes |-> <<>>, colorFamilies |-> <<>>]

\* a function over 1..n as the sequence it is (evaluated once)
Tuple(f) == f \o <<>>

\* Map.prototype.set: replace the value of an existing key in place, else
\* append the entry
MapSet(map, key, value) ==
  IF \E i \in 1..Len(map) : map[i].key = key
    THEN Tuple([i \in 1..Len(map) |->
                  IF map[i].key = key THEN [key |-> key, value |-> value]
                  ELSE map[i]])
    ELSE Append(map, [key |-> key, value |-> value])

SeqToSet(seq) == {seq[i] : i \in 1..Len(seq)}

\* the inner colors.forEach of groupSimilarColors, from index j on:
\* returns [similar, processed]
RECURSIVE CollectSimilar(_, _, _, _, _)
CollectSimilar(colors, j, color, similar, processed) ==
  IF j > Len(colors) THEN [similar |-> similar, processed |-> processed]
  ELSE IF colors[j] # color /\ colors[j] \notin processed
          /\ IsColorSimilar(color, colors[j])
    THEN CollectSimilar(colors, j + 1, color, Append(similar, colors[j]),
                        processed \cup {colors[j]})
    ELSE CollectSimilar(colors, j + 1, color, similar, processed)

\* the outer colors.forEach of groupSimilarColors, from index i on
RECURSIVE GroupLoop(_, _, _, _)
GroupLoop(colors, i, groups, processed) ==
  IF i > Len(colors) THEN groups
  ELSE IF colors[i] \in processed
    THEN GroupLoop(colors, i + 1, groups, processed)
    ELSE LET got == CollectSimilar(colors, 1, colors[i], <<colors[i]>>,
                                   processed)
         IN  GroupLoop(colors, i + 1,
                       MapSet(groups, GetColorFamilyName(colors[i]),
                              got.similar),
                       got.processed \cup {colors[i]})

GroupSimilarColors(colors) == GroupLoop(colors, 1, <<>>, {})

\* one iteration of colorGroups.forEach in assignColorFamilies
AssignFamily(st, familyName, group) ==
  LET inFamily(shape) ==
        \E k \in 1..Len(group) : IsColorSimilar(shape.color, group[k])
      familyShapes == SelectSeq(st.shapes, inFamily)
      ids == Tuple([k \in 1..Len(familyShapes) |-> familyShapes[k].id])
  IN  [st EXCEPT
         !.colorFamilies = MapSet(@, familyName, ids),
         !.shapes = Tuple([k \in 1..Len(@) |->
                             IF inFamily(@[k])
                               THEN [@[k] EXCEPT !.colorFamily = familyName]
                               ELSE @[k]])]

RECURSIVE AssignLoop(_, _, _)
AssignLoop(st, colorGroups, g) ==
  IF g > Len(colorGroups) THEN st
  ELSE AssignLoop(AssignFamily(st, colorGroups[g].key, colorGroups[g].value),
                  colorGroups, g + 1)

AssignColorFamilies(st) ==
  AssignLoop(st, GroupSimilarColors(st.keyShapesColorArray), 1)

\* the colours captured one short: the last shape's colour is left out
FreezePhaseDropsLast(st) ==
  LET keyed == Tuple([k \in 1..Len(st.shapes) |->
                        [st.shapes[k] EXCEPT !.type = "KEY_SHAPE"]])
  IN  AssignColorFamilies(
        [st EXCEPT !.phase = "POST_FREEZE",
                   !.shapes = keyed,
                   !.keyShapesColorArray =
                      Tuple([k \in 1..(Len(keyed) - 1) |-> keyed[k].color])])

\* the colours captured without their repetitions
FreezePhaseDistinct(st) ==
  LET keyed == Tuple([k \in 1..Len(st.shapes) |->
                        [st.shapes[k] EXCEPT !.type = "KEY_SHAPE"]])
      firsts == SelectSeq(Tuple([k \in 1..Len(keyed) |-> k]),
                          LAMBDA k : \A j \in 1..(k - 1) :
                                        keyed[j].color # keyed[k].color)
  IN  AssignColorFamilies(
        [st EXCEPT !.phase = "POST_FREEZE",
                   !.shapes = keyed,
                   !.keyShapesColorArray =
                      Tuple([i \in 1..Len(firsts) |->
                               keyed[firsts[i]].color])])

\* every current shape labelled BORDER_SHAPE instead of KEY_SHAPE
FreezePhaseLabelsBorder(st) ==
  LET keyed == Tuple([k \in 1..Len(st.shapes) |->
                        [st.shapes[k] EXCEPT !.type = "BORDER_SHAPE"]])
  IN  AssignColorFamilies(
        [st EXCEPT !.phase = "POST_FREEZE",
                   !.shapes = keyed,
                   !.keyShapesColorArray =
                      Tuple([k \in 1..Len(keyed) |-> keyed[k].color])])

FreezePhase(st) ==
  LET keyed == Tuple([k \in 1..Len(st.shapes) |->
                        [st.shapes[k] EXCEPT !.type = "KEY_SHAPE"]])
  IN  AssignColorFamilies(
        [st EXCEPT !.phase = "POST_FREEZE",
                   !.shapes = keyed,
                   !.keyShapesColorArray =
                      Tuple([k \in 1..Len(keyed) |-> keyed[k].color])])

\* the counter incremented twice in one call
NextSubmissionCountTwice(count) == count + 2

\* this.submissionCount++
NextSubmissionCount(count) == count + 1

\* the comparison made one submission late
ReachesFreezeLate(count) == count = FREEZE_THRESHOLD + 1

\* this.submissionCount === QUILT_CONFIG.FREEZE_THRESHOLD
ReachesFreeze(count) == count = FREEZE_THRESHOLD

AddSubmission(st) ==
  LET counted == [st EXCEPT
                    !.submissionCount = NextSubmissionCount(@)]
  IN  IF ReachesFreeze(counted.submissionCount)
        THEN FreezePhase(counted)
        ELSE counted

\* ===== QuiltEngine: selection =====
\* the indices of an array, in order; shapes.filter(test) is the
\* subsequence of the indices whose shape passes the test
Indices(shapes) == Tuple([k \in 1..Len(shapes) |-> k])

IsSplittable(shape) == Len(GetValidSplitDirections(shape)) > 0

\* the shape is picked among all the shapes, splittable or not
GetRandomShape(shapes, draw) == IF Len(shapes) = 0 THEN 0 ELSE draw

\* getRandomSplittableShape: 0 is null; draw is
\* Math.floor(Math.random() * splittableShapes.length) + 1
GetRandomSplittableShape(shapes, draw) ==
  LET splittableShapes ==
        SelectSeq(Indices(shapes), LAMBDA k : IsSplittable(shapes[k]))
  IN  IF Len(splittableShapes) = 0 THEN 0 ELSE splittableShapes[draw]

\* the forEach of findMostSimilarKeyShape / findMostSimilarBorderShape over
\* the candidate indices: a strictly smaller difference replaces the choice
RECURSIVE MostSimilarLoop(_, _, _, _, _, _)
MostSimilarLoop(shapes, candidates, newColor, k, mostSimilar, smallestDifference) ==
  IF k > Len(candidates) THEN mostSimilar
  ELSE LET difference ==
             GetColorDifferenceSquared(newColor, shapes[candidates[k]].color)
       IN  IF difference < smallestDifference
             THEN MostSimilarLoop(shapes, candidates, newColor, k + 1,
                                  candidates[k], difference)
             ELSE MostSimilarLoop(shapes, candidates, newColor, k + 1,
                                  mostSimilar, smallestDifference)

\* the last of the candidates at the smallest difference instead of the
\* first
MostSimilarOfLast(shapes, candidates, newColor) ==
  candidates[CHOOSE k \in 1..Len(candidates) :
               /\ \A j \in 1..Len(candidates) :
                     GetColorDifferenceSquared(newColor,
                                               shapes[candidates[k]].color)
                       <= GetColorDifferenceSquared(
                            newColor, shapes[candidates[j]].color)
               /\ \A j \in (k + 1)..Len(candidates) :
                     GetColorDifferenceSquared(newColor,
                                               shapes[candidates[k]].color)
                       < GetColorDifferenceSquared(
                           newColor, shapes[candidates[j]].color)]

\* let mostSimilar = candidates[0], then the forEach
MostSimilarOf(shapes, candidates, newColor) ==
  MostSimilarLoop(shapes, candidates, newColor, 1, candidates[1],
                  GetColorDifferenceSquared(newColor,
                                            shapes[candidates[1]].color))

\* findMostSimilarKeyShape: index of the shape, 0 is null
FindMostSimilarKeyShape(st, newColor) ==
  LET newColorFamily == GetColorFamilyName(newColor)
      isCandidate(shape) == /\ shape.type = "KEY_SHAPE"
                            /\ shape.colorFamily = newColorFamily
                            /\ IsSplittable(shape)
      keyShapes ==
        SelectSeq(Indices(st.shapes), LAMBDA k : isCandidate(st.shapes[k]))
  IN  IF Len(keyShapes) = 0 THEN 0
      ELSE MostSimilarOf(st.shapes, keyShapes, newColor)

FindMostSimilarBorderShape(shapes, borderShapes, newColor) ==
  MostSimilarOf(shapes, borderShapes, newColor)

Area(shape) == shape.position.width * shape.position.height

RECURSIVE LargestLoop(_, _, _, _)
LargestLoop(shapes, candidates, k, largest) ==
  IF k > Len(candidates) THEN largest
  ELSE IF Area(shapes[candidates[k]]) > Area(shapes[largest])
    THEN LargestLoop(shapes, candidates, k + 1, candidates[k])
    ELSE LargestLoop(shapes, candidates, k + 1, largest)

\* the last of the border shapes instead of the largest
FindLastBorderShape(shapes, borderShapes) == borderShapes[Len(borderShapes)]

FindLargestBorderShape(shapes, borderShapes) ==
  LargestLoop(shapes, borderShapes, 1, borderShapes[1])

SetMin(S) == CHOOSE m \in S : \A n \in S : m <= n
SetMax(S) == CHOOSE m \in S : \A n \in S : m >= n

GetQuiltBounds(shapes) ==
  LET idx == 1..Len(shapes)
      minX == SetMin({shapes[k].position.x : k \in idx})
      minY == SetMin({shapes[k].position.y : k \in idx})
      maxX == SetMax({shapes[k].position.x + shapes[k].position.width :
                        k \in idx})
      maxY == SetMax({shapes[k].position.y + shapes[k].position.height :
                        k \in idx})
  IN  [minX |-> minX, minY |-> minY, maxX |-> maxX, maxY |-> maxY,
       width |-> maxX - minX, height |-> maxY - minY]

\* what a selection returns when an exception leaves it
THROWN_TYPE_ERROR == -1

\* createBorderShapeForSide: the position is computed, then the arguments
\* of new QuiltShape(...) are evaluated; this.userTracker is never assigned
\* (QuiltEngine's constructor sets appState and deviceId only), so
\* this.userTracker.getCurrentUserId() throws a TypeError before any shape
\* is constructed.
CreateBorderShapeForSide(side, bounds, newColor, borderThickness) ==
  LET position ==
        CASE side = "top" ->
               [x |-> bounds.minX, y |-> bounds.minY - borderThickness,
                width |-> bounds.width, height |-> borderThickness]
          [] side = "right" ->
               [x |-> bounds.maxX, y |-> bounds.minY,
                width |-> borderThickness, height |-> bounds.height]
          [] side = "bottom" ->
               [x |-> bounds.minX, y |-> bounds.maxY,
                width |-> bounds.width, height |-> borderThickness]
          [] side = "left" ->
               [x |-> bounds.minX - borderThickness, y |-> bounds.minY,
                width |-> borderThickness, height |-> bounds.height]
  IN  THROWN_TYPE_ERROR

Sides == {"top", "right", "bottom", "left"}

\* createNewBorderShape: selectedSide is a draw of Math.random().  Every
\* side ends in the same exception, so the draw decides nothing: the result
\* is the one element of the set of outcomes.  The push of the border shape
\* is not reached.
CreateNewBorderShape(st, newColor) ==
  LET bounds == GetQuiltBounds(st.shapes)
      tenth == (IF bounds.width < bounds.height
                  THEN bounds.width ELSE bounds.height) \div 10
      borderThickness == IF tenth < 40 THEN tenth ELSE 40
      outcomes == {CreateBorderShapeForSide(selectedSide, bounds, newColor,
                                            borderThickness) :
                     selectedSide \in Sides}
  IN  CHOOSE borderShape \in outcomes : TRUE

SelectBorderShape(st, newColor) ==
  LET isBorder(shape) == shape.type = "BORDER_SHAPE" /\ IsSplittable(shape)
      borderShapes ==
        SelectSeq(Indices(st.shapes), LAMBDA k : isBorder(st.shapes[k]))
      similarBorderShapes ==
        SelectSeq(borderShapes,
                  LAMBDA k : IsColorSimilar(newColor, st.shapes[k].color))
  IN  IF Len(borderShapes) = 0
        THEN CreateNewBorderShape(st, newColor)
      ELSE IF Len(similarBorderShapes) > 0
        THEN FindMostSimilarBorderShape(st.shapes, similarBorderShapes,
                                        newColor)
      ELSE FindLargestBorderShape(st.shapes, borderShapes)

\* keyShapesColorArray.some(keyColor => isColorSimilar(newColor, keyColor))
SimilarToKeyColors(st, newColor) ==
  \E k \in 1..Len(st.keyShapesColorArray) :
     IsColorSimilar(newColor, st.keyShapesColorArray[k])

\* the phase ignored: a random splittable shape in both phases
SelectShapeToSplitAnyPhase(st, newColor, draw) ==
  GetRandomSplittableShape(st.shapes, draw)

\* selectShapeToSplit: index of the selected shape, 0 for null,
\* THROWN_TYPE_ERROR when the border creation throws
SelectShapeToSplit(st, newColor, draw) ==
  IF st.phase = "PRE_FREEZE"
    THEN GetRandomSplittableShape(st.shapes, draw)
  ELSE IF SimilarToKeyColors(st, newColor)
    THEN LET keyShape == FindMostSimilarKeyShape(st, newColor)
         IN  IF keyShape # 0 THEN keyShape
             ELSE SelectBorderShape(st, newColor)
  ELSE SelectBorderShape(st, newColor)

\* getSplitDirection: "none" is the thrown Error; preferred is the draw
\* Math.random() < 0.8
GetSplitDirection(shape, preferred) ==
  LET validDirections == GetValidSplitDirections(shape)
      isWider == shape.position.width > shape.position.height
      preferredDirection == IF isWider THEN "vertical" ELSE "horizontal"
  IN  IF Len(validDirections) = 0 THEN "none"
      ELSE IF Len(validDirections) = 1 THEN validDirections[1]
      ELSE IF preferred THEN preferredDirection
      ELSE IF preferredDirection = "vertical" THEN "horizontal"
      ELSE "vertical"

\* the new shape left with the type and family it was split with
HandlePostFreezeKeepsRole(st, newShape, newColor) == newShape

\* handlePostFreezeLogic(newShape, newColor): the new shape relabelled
HandlePostFreezeLogic(st, newShape, newColor) ==
  IF SimilarToKeyColors(st, newColor)
    THEN [newShape EXCEPT !.type = "KEY_SHAPE",
                          !.colorFamily = GetColorFamilyName(newColor)]
    ELSE [newShape EXCEPT !.type = "BORDER_SHAPE"]

\* ===== QuiltEngine: ensureNoGaps =====
\* the guard left out: an extent is kept as it is
EnforceMinimumSkipped(extent) == extent

\* the minimum-size guard of the forEach body of ensureNoGaps
EnforceMinimum(extent) ==
  IF extent < MIN_SHAPE_SIZE THEN MIN_SHAPE_SIZE ELSE extent

\* the forEach body of ensureNoGaps on one shape (tolerance 0.1)
ClampShape(shape, bounds) ==
  LET p == shape.position
      x1 == IF p.x < bounds.minX THEN bounds.minX ELSE p.x
      y1 == IF p.y < bounds.minY THEN bounds.minY ELSE p.y
      w1 == IF x1 + p.width > bounds.maxX THEN bounds.maxX - x1 ELSE p.width
      h1 == IF y1 + p.height > bounds.maxY THEN bounds.maxY - y1
            ELSE p.height
  IN  [shape EXCEPT !.position =
         [x |-> x1, y |-> y1,
          width |-> EnforceMinimum(w1), height |-> EnforceMinimum(h1)]]

Greater(a, b) == IF a > b THEN a ELSE b
Smaller(a, b) == IF a < b THEN a ELSE b

OverlapX(p1, p2) ==
  Greater(0, Smaller(p1.x + p1.width, p2.x + p2.width) - Greater(p1.x, p2.x))

OverlapY(p1, p2) ==
  Greater(0, Smaller(p1.y + p1.height, p2.y + p2.height)
               - Greater(p1.y, p2.y))

\* the fix of one overlapping pair in checkForOverlaps: the second shape's
\* position after the adjustment
FixOverlap(p1, p2) ==
  LET overlapX == OverlapX(p1, p2)
      overlapY == OverlapY(p1, p2)
  IN  IF overlapX > overlapY
        THEN [p2 EXCEPT !.width = Greater(MIN_SHAPE_SIZE, @ - overlapX)]
        ELSE [p2 EXCEPT !.height = Greater(MIN_SHAPE_SIZE, @ - overlapY)]

\* overlapX > 0 && overlapY > 0
Overlapping(p1, p2) ==
  /\ p1.x < p2.x + p2.width
  /\ p2.x < p1.x + p1.width
  /\ p1.y < p2.y + p2.height
  /\ p2.y < p1.y + p1.height

\* the inner for loop of checkForOverlaps for shape i: each iteration reads
\* shape i, which the loop leaves alone, and adjusts only shape j
OverlapInner(shapes, i) ==
  LET p1 == shapes[i].position
  IN  Tuple([j \in 1..Len(shapes) |->
               IF j > i /\ Overlapping(p1, shapes[j].position)
                 THEN [shapes[j] EXCEPT
                         !.position = FixOverlap(p1, shapes[j].position)]
                 ELSE shapes[j]])

\* the outer for loop of checkForOverlaps, from i on
RECURSIVE OverlapLoop(_, _)
OverlapLoop(shapes, i) ==
  IF i > Len(shapes) THEN shapes
  ELSE OverlapLoop(OverlapInner(shapes, i), i + 1)

CheckForOverlaps(shapes) == OverlapLoop(shapes, 1)

\* the forEach body of fillGaps on the shape at index k (tolerance 0.1)
FillGapsAt(shapes, k, bounds) ==
  LET p == shapes[k].position
      rightEdge == p.x + p.width
      toLeft == {i \in 1..Len(shapes) :
                   /\ i # k
                   /\ shapes[i].position.y + shapes[i].position.height = p.y
                   /\ shapes[i].position.x + shapes[i].position.width = p.x}
      q == IF rightEdge = bounds.maxX /\ toLeft = {}
             THEN [p EXCEPT !.x = bounds.minX,
                            !.width = rightEdge - bounds.minX]
             ELSE p
      bottomEdge == q.y + q.height
      above == {i \in 1..Len(shapes) :
                  /\ i # k
                  /\ shapes[i].position.x + shapes[i].position.width = q.x
                  /\ shapes[i].position.y + shapes[i].position.height = q.y}
  IN  IF bottomEdge = bounds.maxY /\ above = {}
        THEN [q EXCEPT !.y = bounds.minY,
                       !.height = bottomEdge - bounds.minY]
        ELSE q

RECURSIVE FillGapsLoop(_, _, _)
FillGapsLoop(shapes, k, bounds) ==
  IF k > Len(shapes) THEN shapes
  ELSE FillGapsLoop([shapes EXCEPT ![k].position =
                       FillGapsAt(shapes, k, bounds)],
                    k + 1, bounds)

FillGaps(shapes) == FillGapsLoop(shapes, 1, GetQuiltBounds(shapes))

RECURSIVE SumAreas(_, _)
SumAreas(shapes, k) ==
  IF k > Len(shapes) THEN 0 ELSE Area(shapes[k]) + SumAreas(shapes, k + 1)

\* fillGaps run whatever the coverage
CheckForGapsAlways(shapes) == FillGaps(shapes)

\* checkForGaps: coverageRatio < 0.99 triggers fillGaps
CheckForGaps(shapes) ==
  LET bounds == GetQuiltBounds(shapes)
      totalShapeArea == SumAreas(shapes, 1)
      quiltArea == bounds.width * bounds.height
  IN  IF 100 * totalShapeArea < 99 * quiltArea THEN FillGaps(shapes)
      ELSE shapes

EnsureNoGaps(shapes) ==
  LET bounds == GetQuiltBounds(shapes)
      clamped == Tuple([k \in 1..Len(shapes) |->
                          ClampShape(shapes[k], bounds)])
  IN  CheckForGaps(CheckForOverlaps(clamped))

\* ===== QuiltEngine: addColor =====
\* what the last addColor call of an engine gave back: the colour it was
\* called with, "ok" or the error thrown, the id and type of the selected
\* shape (0, "none" without one), the ids of the returned shape1 and shape2,
\* and the returned submissionIndex
NoCall ==
  [color |-> <<>>, outcome |-> "none", target |-> 0, targetType |-> "none",
   shape1 |-> 0, shape2 |-> 0, submissionIndex |-> 0]

Thrown(newColor, error) ==
  [NoCall EXCEPT !.color = newColor, !.outcome = error]

\* the second new shape inserted twice
SpliceRepeatsSecond(shapes, shapeIndex, shape1, shape2) ==
  SubSeq(shapes, 1, shapeIndex - 1) \o <<shape1, shape2, shape2>>
    \o SubSeq(shapes, shapeIndex + 1, Len(shapes))

\* the two shapes inserted without removing the one that was split
SpliceKeepsTarget(shapes, shapeIndex, shape1, shape2) ==
  SubSeq(shapes, 1, shapeIndex) \o <<shape1, shape2>>
    \o SubSeq(shapes, shapeIndex + 1, Len(shapes))

\* shapes.splice(shapeIndex, 1, shape1, shape2)
Splice(shapes, shapeIndex, shape1, shape2) ==
  SubSeq(shapes, 1, shapeIndex - 1) \o <<shape1, shape2>>
    \o SubSeq(shapes, shapeIndex + 1, Len(shapes))

\* the contribution recorded although the call leaves by an exception
FailedRecords(counted, ids, contributions, newColor, error) ==
  [appState |-> counted, ids |-> ids,
   contributions |->
     Append(contributions,
            [submissionIndex |-> counted.submissionCount,
             shapeId |-> 0, color |-> newColor]),
   call |-> Thrown(newColor, error)]

\* addColor leaves by an exception after addSubmission: the count (and the
\* freeze) stay, nothing else changes
Failed(counted, ids, contributions, newColor, error) ==
  [appState |-> counted, ids |-> ids, contributions |-> contributions,
   call |-> Thrown(newColor, error)]

\* the end of addColor: splice, recordContribution, ensureNoGaps, return.
\* shape1 and shape2 are the two new shapes (shape2 after
\* handlePostFreezeLogic).
AddColorSplice(counted, ids, contributions, newColor, selected, shape1, shape2) ==
  [appState |->
     [counted EXCEPT
        !.shapes = EnsureNoGaps(Splice(@, selected, shape1, shape2))],
   ids |-> ids + 2,
   contributions |->
     Append(contributions,
            [submissionIndex |-> counted.submissionCount,
             shapeId |-> shape2.id, color |-> newColor]),
   call |->
     [color |-> newColor, outcome |-> "ok",
      target |-> counted.shapes[selected].id,
      targetType |-> counted.shapes[selected].type,
      shape1 |-> shape1.id, shape2 |-> shape2.id,
      submissionIndex |-> counted.submissionCount]]

\* addColor from the result of split on: halves is <<shape1, shape2>>, or
\* <<>> when getSplitDirection or split threw
AddColorHalves(counted, ids, contributions, newColor, selected, halves) ==
  IF halves = <<>>
    THEN Failed(counted, ids, contributions, newColor, "CannotSplit")
    ELSE AddColorSplice(counted, ids, contributions, newColor, selected,
                        halves[1],
                        IF counted.phase = "POST_FREEZE"
                          THEN HandlePostFreezeLogic(counted, halves[2],
                                                     newColor)
                          ELSE halves[2])

\* getSplitDirection, then shapeToSplit.split(...) with two fresh ids
SplitSelected(selectedShape, newColor, splitDirection, submissionIndex, ratioPct, ids) ==
  IF splitDirection = "none" THEN <<>>
  ELSE Split(selectedShape, newColor, splitDirection, DEVICE_ID,
             submissionIndex, ratioPct, ids + 1, ids + 2)

\* addColor from the result of selectShapeToSplit on
AddColorSelected(counted, ids, contributions, newColor, d, selected) ==
  IF selected = THROWN_TYPE_ERROR
    THEN Failed(counted, ids, contributions, newColor, "TypeError")
  ELSE IF selected = 0
    THEN Failed(counted, ids, contributions, newColor, "NoSuitableShape")
  ELSE AddColorHalves(counted, ids, contributions, newColor, selected,
         SplitSelected(counted.shapes[selected], newColor,
                       GetSplitDirection(counted.shapes[selected],
                                         d.preferred),
                       counted.submissionCount, d.ratioPct, ids))

\* addColor after addSubmission: counted is the state it left
AddColorCounted(counted, ids, contributions, newColor, d) ==
  AddColorSelected(counted, ids, contributions, newColor, d,
                   SelectShapeToSplit(counted, newColor, d.target))

\* the shape selected before the submission is counted: the freezing call
\* selects in the state before the freeze
AddValidColorSelectsFirst(st, ids, contributions, newColor, d) ==
  AddColorSelected(AddSubmission(st), ids, contributions, newColor, d,
                   SelectShapeToSplit(st, newColor, d.target))

\* the body of addColor after the colour is validated.  d holds the draws
\* of Math.random(): target (index among the splittable shapes), preferred
\* (direction), ratioPct (split ratio).
AddValidColor(st, ids, contributions, newColor, d) ==
  AddColorCounted(AddSubmission(st), ids, contributions, newColor, d)

\* the colour validated after addSubmission instead of before
AddColorCallCountsFirst(st, ids, contributions, newColor, d) ==
  IF HexToRgb(newColor) = NULL_RGB
    THEN Failed(AddSubmission(st), ids, contributions, newColor,
                "InvalidColor")
    ELSE AddValidColor(st, ids, contributions, newColor, d)

\* addColor(newColor): the colour is validated before anything else
AddColorCall(st, ids, contributions, newColor, d) ==
  IF HexToRgb(newColor) = NULL_RGB
    THEN [appState |-> st, ids |-> ids, contributions |-> contributions,
          call |-> Thrown(newColor, "InvalidColor")]
    ELSE AddValidColor(st, ids, contributions, newColor, d)

\* ===== UserTracker =====
\* allShapes.find(s => s.id === id): the index of the first shape with the
\* id, 0 for undefined
FindById(allShapes, id) ==
  IF \E k \in 1..Len(allShapes) : allShapes[k].id = id
    THEN CHOOSE k \in 1..Len(allShapes) :
           /\ allShapes[k].id = id
           /\ \A j \in 1..(k - 1) : allShapes[j].id # id
    ELSE 0

\* isDescendantOf(shape, ancestorIds, allShapes): the parent is looked up
\* among allShapes
RECURSIVE IsDescendantOf(_, _, _)
IsDescendantOf(shape, ancestorIds, allShapes) ==
  IF shape.id \in ancestorIds THEN TRUE
  ELSE IF shape.parentId # 0 /\ FindById(allShapes, shape.parentId) # 0
    THEN IsDescendantOf(allShapes[FindById(allShapes, shape.parentId)],
                        ancestorIds, allShapes)
  ELSE FALSE

\* findUserPieces(shapes) with the stored contributions
FindUserPieces(shapes, contributions) ==
  SelectSeq(shapes,
            LAMBDA shape :
              IsDescendantOf(shape,
                             {contributions[k].shapeId :
                                k \in 1..Len(contributions)},
                             shapes))

\* ===== STATE =====
\* Each variable is a function over the engines (pages) of the run.
\*  appState            engine.appState (QuiltAppState)
\*  generatedIds        how many ids generateId() has returned in the page
\*  quiltContributions  localStorage 'quiltContributions'.submissions
\*  lastCall            the result of the engine's last addColor call
\*  validCalls          addColor calls made with a parseable colour since
\*                      initialize() (history)
\*  parentIds           parentIds[id] is the parentId the shape with that id
\*                      was constructed with (history; a shape that was
\*                      split is no longer in appState.shapes)
VARIABLES appState, generatedIds, quiltContributions, lastCall, validCalls, parentIds

\* The app pages and the image server that host the quilt:
\*  quiltDoc            the Firestore document the pages load and save
\*  pages               each page's OurDailyApp: quiltManager.blocks, the
\*                      position of its loadQuilt / handleAddColor, and the
\*                      colours it has added (history)
\*  server              the module variables of the image server, and the
\*                      browsers chromium.launch() has opened (history)
\*  requests            the initializeBrowser / request handlers in flight,
\*                      each with its position
VARIABLES quiltDoc, pages, server, requests

engineVars == <<appState, generatedIds, quiltContributions, lastCall, validCalls, parentIds>>

hostVars == <<quiltDoc, pages, server, requests>>

vars == <<appState, generatedIds, quiltContributions, lastCall, validCalls, parentIds, quiltDoc, pages, server, requests>>

\* no page is open and the image server is not started
NotHosted ==
  /\ quiltDoc = <<>>
  /\ pages = <<>>
  /\ server = <<>>
  /\ requests = <<>>

Engines == DOMAIN appState

\* new QuiltEngine() followed by initialize(): one default shape
InitialShape(id) ==
  QuiltShape(id, "KEY_SHAPE", DEFAULT_COLOR,
             [x |-> 0, y |-> 0, width |-> QUILT_SIZE, height |-> QUILT_SIZE],
             0, DEVICE_ID, 0, "null")

\* initialize() on the state st
Initialized(st, id) ==
  [st EXCEPT !.shapes = <<InitialShape(id)>>,
             !.submissionCount = 0,
             !.phase = "PRE_FREEZE"]

InitEngines(E) ==
  /\ appState = [e \in E |-> Initialized(NewAppState, 1)]
  /\ generatedIds = [e \in E |-> 1]
  /\ quiltContributions = [e \in E |-> <<>>]
  /\ lastCall = [e \in E |-> NoCall]
  /\ validCalls = [e \in E |-> 0]
  /\ parentIds = [e \in E |-> <<InitialShape(1).parentId>>]
  /\ NotHosted

Init == InitEngines({1})

\* ===== INPUTS =====
\* the valid colours submitted before the freeze, call after call
PreFreezeColors == <<CYAN_COLOR, BLUE_COLOR, DEFAULT_COLOR>>
PostFreezeColors == {CYAN_COLOR, NEAR_COLOR, FAR_COLOR}
InvalidColors == {SHORT_COLOR, WORD_COLOR}

\* the valid colour of the pre-freeze call that follows count submissions
PreFreezeColor(count) == PreFreezeColors[(count % Len(PreFreezeColors)) + 1]

\* the colours offered to the call that follows state st: before the freeze
\* the next colour of PreFreezeColors, from the freezing call on any of
\* PostFreezeColors; an unparseable colour in the first BranchDepth calls,
\* to the freezing call and to the call after it
InputColors(st) ==
  IF st.submissionCount + 1 >= FREEZE_THRESHOLD
    THEN IF st.submissionCount <= FREEZE_THRESHOLD
           THEN PostFreezeColors \cup InvalidColors
           ELSE PostFreezeColors
  ELSE IF st.submissionCount < BranchDepth
    THEN {PreFreezeColor(st.submissionCount)} \cup InvalidColors
  ELSE {PreFreezeColor(st.submissionCount)}

\* the draws of Math.random() offered to the call that follows state st
Draws(st) ==
  LET wide == st.submissionCount < BranchDepth
      splittable ==
        Len(SelectSeq(Indices(st.shapes),
                      LAMBDA k : IsSplittable(st.shapes[k])))
  IN  [target : IF wide /\ splittable > 0 THEN 1..splittable ELSE {1},
       preferred : IF wide THEN BOOLEAN ELSE {TRUE},
       ratioPct : IF wide THEN {30, 50} ELSE {50}]

\* every value Math.floor(Math.random() * splittableShapes.length) + 1 can
\* take in state st
TargetDraws(st) ==
  1..Greater(1, Len(SelectSeq(Indices(st.shapes),
                              LAMBDA k : IsSplittable(st.shapes[k]))))

\* ===== ACTIONS =====
\* the parentIds of an engine after an addColor call that gave r: the
\* parentId of the two shapes the call constructed
ParentIdsAfter(parents, r) ==
  IF r.call.outcome = "ok"
    THEN parents
           \o <<r.appState.shapes[FindById(r.appState.shapes,
                                           r.call.shape1)].parentId,
                r.appState.shapes[FindById(r.appState.shapes,
                                           r.call.shape2)].parentId>>
    ELSE parents

\* the variables of engine e after an addColor call that gave r
Returned(e, r) ==
  /\ appState' = [appState EXCEPT ![e] = r.appState]
  /\ generatedIds' = [generatedIds EXCEPT ![e] = r.ids]
  /\ quiltContributions' = [quiltContributions EXCEPT ![e] = r.contributions]
  /\ lastCall' = [lastCall EXCEPT ![e] = r.call]
  /\ validCalls' =
       [validCalls EXCEPT
          ![e] = IF r.call.outcome = "InvalidColor" THEN @ ELSE @ + 1]
  /\ parentIds' = [parentIds EXCEPT ![e] = ParentIdsAfter(@, r)]
  /\ UNCHANGED hostVars

\* engine e handles addColor(newColor) with the draws d
AddColor(e, newColor, d) ==
  /\ appState[e].submissionCount < MaxSubmissions
  /\ Returned(e, AddColorCall(appState[e], generatedIds[e],
                              quiltContributions[e], newColor, d))

Next ==
  \E e \in Engines :
    \E newColor \in InputColors(appState[e]), d \in Draws(appState[e]) :
      AddColor(e, newColor, d)

Spec == Init /\ [][Next]_vars

\* ===== TWO RUNS ON THE SAME COLOURS =====
\* Two engines (two pages) are given the same colour in every step, each
\* with Math.random() draws of its own: engine 1 takes the first splittable
\* shape, the preferred direction and the middle offset, engine 2 any of
\* Draws.  The runs end with the freezing call.
FirstDraws == {[target |-> 1, preferred |-> TRUE, ratioPct |-> 50]}

\* both engines handle addColor(newColor): r1 and r2 are what the calls gave
ReturnedBoth(r1, r2) ==
  /\ appState' = <<r1.appState, r2.appState>>
  /\ generatedIds' = <<r1.ids, r2.ids>>
  /\ quiltContributions' = <<r1.contributions, r2.contributions>>
  /\ lastCall' = <<r1.call, r2.call>>
  /\ validCalls' =
       [e \in {1, 2} |->
          IF r1.call.outcome = "InvalidColor" THEN validCalls[e]
          ELSE validCalls[e] + 1]
  /\ parentIds' = <<ParentIdsAfter(parentIds[1], r1),
                    ParentIdsAfter(parentIds[2], r2)>>
  /\ UNCHANGED hostVars

AddColorBoth(newColor, d1, d2) ==
  /\ appState[1].submissionCount < FREEZE_THRESHOLD
  /\ ReturnedBoth(AddColorCall(appState[1], generatedIds[1],
                               quiltContributions[1], newColor, d1),
                  AddColorCall(appState[2], generatedIds[2],
                               quiltContributions[2], newColor, d2))

InitPair == InitEngines({1, 2})

NextPair ==
  \E newColor \in InputColors(appState[1]) :
    \E d1 \in FirstDraws, d2 \in Draws(appState[2]) :
      AddColorBoth(newColor, d1, d2)

SpecPair == InitPair /\ [][NextPair]_vars

\* ===== RUNS TO THE FREEZE WITH COLOURS OF ONE HUE FAMILY =====
\* initialize(), then addColor calls up to the freezing one: the first
\* BranchDepth calls with any of FamilyColors (NEAR_COLOR is within 35 of
\* the default colour and of FAR_COLOR, FAR_COLOR is not within 35 of the
\* default colour; the hue of all three is orange), the later ones with
\* the next colour of PreFreezeColors; every call takes the first
\* splittable shape, the preferred direction and the middle offset.
FamilyColors == {NEAR_COLOR, FAR_COLOR, CYAN_COLOR}

FamilyInputColors(st) ==
  IF st.submissionCount < BranchDepth THEN FamilyColors
  ELSE {PreFreezeColor(st.submissionCount)}

\* engine e handles addColor(newColor) with the draws d, before the freeze
AddColorToFreeze(e, newColor, d) ==
  /\ appState[e].submissionCount < FREEZE_THRESHOLD
  /\ Returned(e, AddColorCall(appState[e], generatedIds[e],
                              quiltContributions[e], newColor, d))

NextFamilies ==
  \E e \in Engines :
    \E newColor \in FamilyInputColors(appState[e]), d \in FirstDraws :
      AddColorToFreeze(e, newColor, d)

SpecFamilies == Init /\ [][NextFamilies]_vars

\* ===== RUNS TO THE FREEZE WITH A CHAIN OF SIMILAR COLOURS =====
\* initialize(), then addColor calls up to the freezing one: the first
\* BranchDepth calls with any of ChainColors (CYAN_COLOR is within 35 of
\* BLUE_COLOR and of TEAL_COLOR, which are not within 35 of each other;
\* BLUE_COLOR is of hue family blue, the other two of hue family cyan), the
\* later ones with the next colour of PreFreezeColors; every call takes
\* the first splittable shape, the preferred direction and the middle
\* offset.
ChainColors == {BLUE_COLOR, CYAN_COLOR, TEAL_COLOR}

ChainInputColors(st) ==
  IF st.submissionCount < BranchDepth THEN ChainColors
  ELSE {PreFreezeColor(st.submissionCount)}

NextChain ==
  \E e \in Engines :
    \E newColor \in ChainInputColors(appState[e]), d \in FirstDraws :
      AddColorToFreeze(e, newColor, d)

SpecChain == Init /\ [][NextChain]_vars

\* ===== THE FIRST CONTRIBUTIONS WITH EVERY DRAW =====
\* initialize(), then addColor("#ff0000") ScenarioCalls times, each call
\* with any target, either direction draw and a split ratio from 30% up to
\* 69% (Math.random() < 1 keeps the ratio below 0.7).
RED_COLOR == <<"#", "f", "f", "0", "0", "0", "0">>

ScenarioRatios == {30, 35, 40, 45, 50, 55, 60, 65, 69}

ScenarioDraws(st) ==
  [target : TargetDraws(st), preferred : BOOLEAN, ratioPct : ScenarioRatios]

\* engine e handles addColor("#ff0000") with the draws d
AddColorScenario(e, d) ==
  /\ appState[e].submissionCount < ScenarioCalls
  /\ Returned(e, AddColorCall(appState[e], generatedIds[e],
                              quiltContributions[e], RED_COLOR, d))

NextScenario ==
  \E e \in Engines :
    \E d \in ScenarioDraws(appState[e]) : AddColorScenario(e, d)

SpecScenario == Init /\ [][NextScenario]_vars

\* ===== split ON A CONSTRUCTED SHAPE =====
\* One shape (id 2) of any of SplitExtents in width and height, at either
\* origin, with any of three sets of attributes; split is called on it once
\* with a colour, a direction, a contributor with a submission index, and a
\* split ratio.  After the call appState.shapes holds the shape split was
\* called on, as the call left it, followed by the two shapes returned.
SplitExtents == {79, 80, 90, 1000}
SplitOrigins == {[x |-> 0, y |-> 0], [x |-> 300, y |-> 10]}
SplitRatios == {30, 50, 69}

SplitAttributes ==
  {[type |-> "KEY_SHAPE", color |-> DEFAULT_COLOR, parentId |-> 0,
    contributorId |-> DEVICE_ID, submissionIndex |-> 0,
    colorFamily |-> "null"],
   [type |-> "KEY_SHAPE", color |-> CYAN_COLOR, parentId |-> 1,
    contributorId |-> "other", submissionIndex |-> 7,
    colorFamily |-> "blue"],
   [type |-> "BORDER_SHAPE", color |-> FAR_COLOR, parentId |-> 1,
    contributorId |-> "other", submissionIndex |-> 21,
    colorFamily |-> "null"]}

SplitShapes ==
  {QuiltShape(2, a.type, a.color,
              [x |-> o.x, y |-> o.y, width |-> width, height |-> height],
              a.parentId, a.contributorId, a.submissionIndex, a.colorFamily) :
     a \in SplitAttributes, o \in SplitOrigins,
     width \in SplitExtents, height \in SplitExtents}

\* the contributor and submission index split is called with
SplitCallers ==
  {[contributorId |-> DEVICE_ID, submissionIndex |-> 1],
   [contributorId |-> "third", submissionIndex |-> 22]}

InitSplit ==
  /\ appState \in {<<[NewAppState EXCEPT !.shapes = <<shape>>]>> :
                     shape \in SplitShapes}
  /\ generatedIds = <<2>>
  /\ quiltContributions = <<<<>>>>
  /\ lastCall = <<NoCall>>
  /\ validCalls = <<0>>
  /\ parentIds \in {<<<<0, appState[1].shapes[1].parentId>>>>}
  /\ NotHosted

\* what the call split(newColor, direction, contributorId, submissionIndex)
\* on the shape gave: the arguments, "split" or the error thrown, and the
\* ids of the two shapes returned
SplitResult(shape, halves, newColor, direction, caller) ==
  [color |-> newColor, direction |-> direction,
   contributorId |-> caller.contributorId,
   submissionIndex |-> caller.submissionIndex,
   target |-> shape.id, targetType |-> shape.type,
   outcome |-> IF halves = <<>> THEN "CannotSplit" ELSE "split",
   shape1 |-> IF halves = <<>> THEN 0 ELSE halves[1].id,
   shape2 |-> IF halves = <<>> THEN 0 ELSE halves[2].id]

\* the variables of engine e after split on its shape returned halves
SplitReturned(e, shape, halves, newColor, direction, caller) ==
  /\ appState' = [appState EXCEPT ![e].shapes = <<shape>> \o halves]
  /\ generatedIds' = [generatedIds EXCEPT ![e] = @ + Len(halves)]
  /\ lastCall' = [lastCall EXCEPT
                    ![e] = SplitResult(shape, halves, newColor, direction,
                                       caller)]
  /\ parentIds' =
       [parentIds EXCEPT
          ![e] = @ \o [k \in 1..Len(halves) |-> halves[k].parentId]]
  /\ UNCHANGED <<quiltContributions, validCalls>>
  /\ UNCHANGED hostVars

\* split is called once on the shape of engine e
SplitCall(e, newColor, direction, caller, ratioPct) ==
  /\ lastCall[e].outcome = "none"
  /\ SplitReturned(e, appState[e].shapes[1],
                   Split(appState[e].shapes[1], newColor, direction,
                         caller.contributorId, caller.submissionIndex,
                         ratioPct, generatedIds[e] + 1, generatedIds[e] + 2),
                   newColor, direction, caller)

NextSplit ==
  \E e \in Engines :
    \E newColor \in {RED_COLOR, CYAN_COLOR},
       direction \in {"horizontal", "vertical"} :
      \E caller \in SplitCallers, ratioPct \in SplitRatios :
        SplitCall(e, newColor, direction, caller, ratioPct)

SpecSplit == InitSplit /\ [][NextSplit]_vars

\* ===== selectBorderShape ON A CONSTRUCTED STATE =====
\* A frozen state of one KEY_SHAPE, labelled with either of KeyLabels,
\* followed by two or three BORDER_SHAPEs, each of any of BorderColors and
\* BorderSizes (40 x 40 has no valid split direction; 100 x 100 and
\* 200 x 50 have the same area); selectBorderShape, or addColor, is called
\* once with a colour.
KeyLabels == {"orange", "blue"}

BorderColors == {NEAR_COLOR, FAR_COLOR, CYAN_COLOR}

BorderSizes ==
  {[width |-> 40, height |-> 40], [width |-> 100, height |-> 100],
   [width |-> 200, height |-> 50], [width |-> 300, height |-> 100]}

\* the k-th border shape of the constructed state, right of the key shape
ConstructedBorder(k, color, size) ==
  QuiltShape(k + 1, "BORDER_SHAPE", color,
             [x |-> QUILT_SIZE + 300 * (k - 1), y |-> 0,
              width |-> size.width, height |-> size.height],
             0, DEVICE_ID, FREEZE_THRESHOLD + k, "null")

BorderLists ==
  UNION {[1..n -> BorderColors \X BorderSizes] : n \in {2, 3}}

\* the shapes of the constructed state for a list of colour and size pairs
ConstructedBorders(list, label) ==
  <<[InitialShape(1) EXCEPT !.colorFamily = label]>>
    \o Tuple([k \in 1..Len(list) |->
                ConstructedBorder(k, list[k][1], list[k][2])])

FrozenWith(shapes) ==
  [NewAppState EXCEPT !.shapes = shapes,
                      !.phase = "POST_FREEZE",
                      !.submissionCount = FREEZE_THRESHOLD + Len(shapes) - 1,
                      !.keyShapesColorArray = <<DEFAULT_COLOR>>,
                      !.colorFamilies =
                         <<[key |-> shapes[1].colorFamily,
                            value |-> <<1>>]>>]

InitBorder ==
  /\ appState \in {<<FrozenWith(ConstructedBorders(list, label))>> :
                     list \in BorderLists, label \in KeyLabels}
  /\ generatedIds = <<Len(appState[1].shapes)>>
  /\ quiltContributions = <<<<>>>>
  /\ lastCall = <<NoCall>>
  /\ validCalls = <<0>>
  /\ parentIds = <<[k \in 1..Len(appState[1].shapes) |-> 0]>>
  /\ NotHosted

\* what selectBorderShape(newColor) gave: the shape selected, or the
\* exception of createNewBorderShape
BorderSelected(st, newColor, selected) ==
  [NoCall EXCEPT
     !.color = newColor,
     !.outcome = IF selected = THROWN_TYPE_ERROR THEN "TypeError"
                 ELSE "selected",
     !.target = IF selected = THROWN_TYPE_ERROR THEN 0
                ELSE st.shapes[selected].id,
     !.targetType = IF selected = THROWN_TYPE_ERROR THEN "none"
                    ELSE st.shapes[selected].type]

\* engine e runs selectBorderShape(newColor) once on the constructed state
SelectBorder(e, newColor) ==
  /\ lastCall[e].outcome = "none"
  /\ lastCall' = [lastCall EXCEPT
                    ![e] = BorderSelected(appState[e], newColor,
                                          SelectBorderShape(appState[e],
                                                            newColor))]
  /\ UNCHANGED <<appState, generatedIds, quiltContributions, validCalls,
                 parentIds>>
  /\ UNCHANGED hostVars

\* engine e handles addColor(newColor) once on the constructed state
AddColorOnBorders(e, newColor, d) ==
  /\ lastCall[e].outcome = "none"
  /\ Returned(e, AddColorCall(appState[e], generatedIds[e],
                              quiltContributions[e], newColor, d))

NextBorder ==
  \E e \in Engines :
    \E newColor \in BorderColors \cup {DEFAULT_COLOR} :
      \/ SelectBorder(e, newColor)
      \/ \E d \in Draws(appState[e]) : AddColorOnBorders(e, newColor, d)

SpecBorder == InitBorder /\ [][NextBorder]_vars

\* ===== RUNS FROM initialize() AND CALLS ON FROZEN STATES WITH BORDERS =====
\* The runs of Spec, and besides them one addColor call on each constructed
\* frozen state whose BORDER_SHAPEs have colours that are not within 35 of
\* the frozen colour.
DissimilarBorderLists ==
  {list \in BorderLists :
     \A k \in 1..Len(list) : ~IsColorSimilar(list[k][1], DEFAULT_COLOR)}

InitDissimilarBorders ==
  /\ appState \in {<<FrozenWith(ConstructedBorders(list, label))>> :
                     list \in DissimilarBorderLists, label \in KeyLabels}
  /\ generatedIds = <<Len(appState[1].shapes)>>
  /\ quiltContributions = <<<<>>>>
  /\ lastCall = <<NoCall>>
  /\ validCalls = <<0>>
  /\ parentIds = <<[k \in 1..Len(appState[1].shapes) |-> 0]>>
  /\ NotHosted

InitRoles == Init \/ InitDissimilarBorders

\* engine e handles addColor(newColor) once on a constructed frozen state
AddColorOnFrozen(e, newColor, d) ==
  /\ appState[e].phase = "POST_FREEZE"
  /\ AddColorOnBorders(e, newColor, d)

NextRoles ==
  \/ Next
  \/ \E e \in Engines :
       \E newColor \in BorderColors \cup {DEFAULT_COLOR} :
         \E d \in Draws(appState[e]) : AddColorOnFrozen(e, newColor, d)

SpecRoles == InitRoles /\ [][NextRoles]_vars

\* ===== isColorSimilar ON PAIRS OF COLOURS =====
\* "#000000", "#230000" (distance 35 from black) and "#240000" (distance 36)
BLACK_COLOR == <<"#", "0", "0", "0", "0", "0", "0">>
EDGE_COLOR == <<"#", "2", "3", "0", "0", "0", "0">>
OVER_COLOR == <<"#", "2", "4", "0", "0", "0", "0">>
\* the default colour written in upper case without "#"
UPPER_COLOR == <<"F", "7", "B", "7", "3", "3">>

ComparedColors ==
  {DEFAULT_COLOR, NEAR_COLOR, FAR_COLOR, CYAN_COLOR, BLUE_COLOR, RED_COLOR,
   BLACK_COLOR, EDGE_COLOR, OVER_COLOR, UPPER_COLOR}

\* a pair of colours not compared yet
Uncompared(color1, color2) ==
  [color |-> color1, other |-> color2, outcome |-> "none"]

InitSimilar ==
  /\ appState = <<Initialized(NewAppState, 1)>>
  /\ generatedIds = <<1>>
  /\ quiltContributions = <<<<>>>>
  /\ lastCall \in {<<Uncompared(color1, color2)>> :
                     color1 \in ComparedColors, color2 \in ComparedColors}
  /\ validCalls = <<0>>
  /\ parentIds = <<<<0>>>>
  /\ NotHosted

\* what the calls isColorSimilar(color1, color2), isColorSimilar(color2,
\* color1) and isColorSimilar(color1, color1) return
Compared(color1, color2) ==
  [color |-> color1, other |-> color2, outcome |-> "compared",
   similar |-> IsColorSimilar(color1, color2),
   swapped |-> IsColorSimilar(color2, color1),
   self |-> IsColorSimilar(color1, color1)]

\* the pair of colours of engine e is compared
CompareColors(e) ==
  /\ lastCall[e].outcome = "none"
  /\ lastCall' = [lastCall EXCEPT
                    ![e] = Compared(lastCall[e].color, lastCall[e].other)]
  /\ UNCHANGED <<appState, generatedIds, quiltContributions, validCalls,
                 parentIds>>
  /\ UNCHANGED hostVars

NextSimilar == \E e \in Engines : CompareColors(e)

SpecSimilar == InitSimilar /\ [][NextSimilar]_vars

\* ===== initialize() CALLED AGAIN ON A FROZEN ENGINE =====
\* initialize(), addColor calls up to the freezing one, then initialize()
\* again and a second run to the freeze.  The first BranchDepth calls after
\* each initialize() take any of ReinitColors (hue families red and cyan),
\* the later ones the next colour of PreFreezeColors; every call takes the
\* first splittable shape, the preferred direction and the middle offset.
ReinitColors == {RED_COLOR, CYAN_COLOR}

ReinitInputColors(st) ==
  IF st.submissionCount < BranchDepth THEN ReinitColors
  ELSE {PreFreezeColor(st.submissionCount)}

\* how often engine e has run initialize(): each call constructs one shape
\* without a parent
Initializations(e) ==
  Cardinality({id \in DOMAIN parentIds[e] : parentIds[e][id] = 0})

\* engine e handles initialize() after its freeze: the shape constructed
\* takes the next id of generateId()
Initialize(e) ==
  /\ appState[e].phase = "POST_FREEZE"
  /\ Initializations(e) < MaxInitializations
  /\ appState' =
       [appState EXCEPT ![e] = Initialized(@, generatedIds[e] + 1)]
  /\ generatedIds' = [generatedIds EXCEPT ![e] = @ + 1]
  /\ lastCall' = [lastCall EXCEPT ![e] = NoCall]
  /\ validCalls' = [validCalls EXCEPT ![e] = 0]
  /\ parentIds' =
       [parentIds EXCEPT
          ![e] = Append(@, InitialShape(generatedIds[e] + 1).parentId)]
  /\ UNCHANGED quiltContributions
  /\ UNCHANGED hostVars

NextReinit ==
  \E e \in Engines :
    \/ \E newColor \in ReinitInputColors(appState[e]), d \in FirstDraws :
         AddColorToFreeze(e, newColor, d)
    \/ Initialize(e)

SpecReinit == Init /\ [][NextReinit]_vars

\* ===== ensureNoGaps ON A CONSTRUCTED STATE =====
\* Two KEY_SHAPEs that tile a width x height rectangle, cut at offset cut
\* (side by side, or stacked), one of them grown by 2 over the other; the
\* array holds them in either order.
RepairExtents == {200, 400, 1000}
RepairCuts == {80, 100}

ConstructedShape(id, position) ==
  QuiltShape(id, "KEY_SHAPE", DEFAULT_COLOR, position, 0, DEVICE_ID, 0, "null")

OverlappingPair(width, height, cut, stacked, firstGrown, swapped) ==
  LET lowEnd == IF firstGrown THEN cut + 2 ELSE cut
      highStart == IF firstGrown THEN cut ELSE cut - 2
      low == IF stacked
               THEN [x |-> 0, y |-> 0, width |-> width, height |-> lowEnd]
               ELSE [x |-> 0, y |-> 0, width |-> lowEnd, height |-> height]
      high == IF stacked
                THEN [x |-> 0, y |-> highStart, width |-> width,
                      height |-> height - highStart]
                ELSE [x |-> highStart, y |-> 0,
                      width |-> width - highStart, height |-> height]
  IN  IF swapped
        THEN <<ConstructedShape(1, high), ConstructedShape(2, low)>>
        ELSE <<ConstructedShape(1, low), ConstructedShape(2, high)>>

OverlappingPairs ==
  {OverlappingPair(width, height, cut, stacked, firstGrown, swapped) :
     width \in RepairExtents, height \in RepairExtents, cut \in RepairCuts,
     stacked \in BOOLEAN, firstGrown \in BOOLEAN, swapped \in BOOLEAN}

InitRepair ==
  /\ appState \in {<<[NewAppState EXCEPT !.shapes = shapes]>> :
                     shapes \in OverlappingPairs}
  /\ generatedIds = <<2>>
  /\ quiltContributions = <<<<>>>>
  /\ lastCall = <<NoCall>>
  /\ validCalls = <<0>>
  /\ parentIds = <<<<0, 0>>>>
  /\ NotHosted

\* engine e runs ensureNoGaps() once on the constructed state
Repair(e) ==
  /\ lastCall[e].outcome = "none"
  /\ appState' = [appState EXCEPT ![e].shapes = EnsureNoGaps(@)]
  /\ lastCall' = [lastCall EXCEPT ![e].outcome = "repaired"]
  /\ UNCHANGED <<generatedIds, quiltContributions, validCalls, parentIds>>
  /\ UNCHANGED hostVars

NextRepair == \E e \in Engines : Repair(e)

SpecRepair == InitRepair /\ [][NextRepair]_vars

\* ===== ensureNoGaps ON A CONSTRUCTED TILING =====
\* Two or three KEY_SHAPEs that tile a width x height rectangle with its
\* corner at either of TiledOrigins: the rectangle is cut at offset cut
\* (side by side, or stacked) and its second part may be cut again at
\* offset second; every part is at least MIN_SHAPE_SIZE wide and high; the
\* array holds the parts in cutting order or reversed.
TiledOrigins == {[x |-> 0, y |-> 0], [x |-> 50, y |-> 30]}
TiledCuts == {0, 40, 60}

\* the two parts of a rectangle cut at an offset
CutRectangle(p, cut, stacked) ==
  IF stacked
    THEN <<[p EXCEPT !.height = cut],
           [p EXCEPT !.y = p.y + cut, !.height = p.height - cut]>>
    ELSE <<[p EXCEPT !.width = cut],
           [p EXCEPT !.x = p.x + cut, !.width = p.width - cut]>>

\* the parts of a rectangle cut once, and its second part cut again unless
\* second is 0
TiledRectangles(p, cut, stacked, second, secondStacked) ==
  LET parts == CutRectangle(p, cut, stacked)
  IN  IF second = 0 THEN parts
      ELSE <<parts[1]>> \o CutRectangle(parts[2], second, secondStacked)

Reversed(seq) == Tuple([k \in 1..Len(seq) |-> seq[Len(seq) + 1 - k]])

TiledShapes(parts, reversed) ==
  LET shapes == Tuple([k \in 1..Len(parts) |-> ConstructedShape(k, parts[k])])
  IN  IF reversed THEN Reversed(shapes) ELSE shapes

Tilings ==
  {TiledShapes(TiledRectangles([x |-> origin.x, y |-> origin.y,
                                width |-> width, height |-> height],
                               cut, stacked, second, secondStacked),
               reversed) :
     origin \in TiledOrigins, width \in RepairExtents,
     height \in RepairExtents, cut \in RepairCuts, stacked \in BOOLEAN,
     second \in TiledCuts, secondStacked \in BOOLEAN, reversed \in BOOLEAN}

InitTiled ==
  /\ appState \in {<<[NewAppState EXCEPT !.shapes = shapes]>> :
                     shapes \in Tilings}
  /\ generatedIds = <<Len(appState[1].shapes)>>
  /\ quiltContributions = <<<<>>>>
  /\ lastCall = <<NoCall>>
  /\ validCalls = <<0>>
  /\ parentIds = <<[k \in 1..Len(appState[1].shapes) |-> 0]>>
  /\ NotHosted

SpecTiled == InitTiled /\ [][NextRepair]_vars

\* ===== QuiltManager (quilt-manager.js) =====
\* CONFIG.APP.quiltSize, CONFIG.APP.minBlockSize
APP_QUILT_SIZE == 600
APP_MIN_BLOCK_SIZE == 40

\* validateHexColor: /^#[0-9A-F]{6}$/i
ValidateHexColor(color) ==
  /\ Len(color) = 7
  /\ color[1] = "#"
  /\ \A i \in 2..7 : color[i] \in DOMAIN HexDigits

\* this.blocks after the constructor and after reset()
DefaultBlocks ==
  <<[x |-> 0, y |-> 0, width |-> APP_QUILT_SIZE, height |-> APP_QUILT_SIZE,
     color |-> DEFAULT_COLOR]>>

BlockArea(block) == block.width * block.height

\* splitBlock(blockIndex, newColor) with the draw ratioPct of Math.random():
\* the blocks after the splice
SplitBlock(blocks, blockIndex, newColor, ratioPct) ==
  LET block == blocks[blockIndex]
      splitVertically == block.width >= block.height
      splitX == SplitOffset(block.width, ratioPct)
      splitY == SplitOffset(block.height, ratioPct)
      block1 == IF splitVertically THEN [block EXCEPT !.width = splitX]
                ELSE [block EXCEPT !.height = splitY]
      block2 == IF splitVertically
                  THEN [block EXCEPT !.x = block.x + splitX,
                                     !.width = block.width - splitX,
                                     !.color = newColor]
                  ELSE [block EXCEPT !.y = block.y + splitY,
                                     !.height = block.height - splitY,
                                     !.color = newColor]
  IN  SubSeq(blocks, 1, blockIndex - 1) \o <<block1, block2>>
        \o SubSeq(blocks, blockIndex + 1, Len(blocks))

\* the first block of the largest area among the blocks at the indices
LargestBlock(blocks, indices) ==
  CHOOSE k \in indices :
    /\ \A j \in indices : BlockArea(blocks[j]) <= BlockArea(blocks[k])
    /\ \A j \in indices :
          j < k => BlockArea(blocks[j]) < BlockArea(blocks[k])

\* addColor(color): the largest eligible block, or else the largest block,
\* is split; gives the success flag and the blocks
QuiltManagerAddColor(blocks, color, ratioPct) ==
  LET eligibleBlocks ==
        {k \in 1..Len(blocks) :
           /\ blocks[k].width > APP_MIN_BLOCK_SIZE
           /\ blocks[k].height > APP_MIN_BLOCK_SIZE}
      indexToSplit ==
        IF eligibleBlocks # {} THEN LargestBlock(blocks, eligibleBlocks)
        ELSE LargestBlock(blocks, 1..Len(blocks))
  IN  IF ~ValidateHexColor(color)
        THEN [success |-> FALSE, blocks |-> blocks]
        ELSE [success |-> TRUE,
              blocks |-> SplitBlock(blocks, indexToSplit, color, ratioPct)]

\* getTodayKey()
TODAY == "today"

\* getQuiltData()
GetQuiltData(blocks) == [exists |-> TRUE, blocks |-> blocks, date |-> TODAY]

\* ===== OurDailyApp: PAGES THAT SHARE THE STORED QUILT =====
\* Two pages are opened on the same Firestore document, which does not
\* exist, holds the quilt of an earlier day, or holds today's quilt; each
\* page runs loadQuilt() and then handleAddColor() up to PageColors times
\* with any of PageInputColors.  getDoc and setDoc are the steps at which
\* the pages interleave: a setDoc sent by saveQuilt() takes effect in a
\* later step than the call that sent it.
Clients == {1, 2}
PageInputColors == {CYAN_COLOR, BLUE_COLOR, SHORT_COLOR}
PageRatios == {30, 50}

MissingDoc == [exists |-> FALSE, blocks |-> <<>>, date |-> "none"]

StoredDocs ==
  {MissingDoc,
   [exists |-> TRUE, blocks |-> DefaultBlocks, date |-> "yesterday"],
   GetQuiltData(DefaultBlocks)}

\* new OurDailyApp(): the quilt manager holds the default block
NewPage ==
  [blocks |-> DefaultBlocks, pc |-> "start", pending |-> MissingDoc,
   added |-> <<>>]

NoEngines ==
  /\ appState = <<>>
  /\ generatedIds = <<>>
  /\ quiltContributions = <<>>
  /\ lastCall = <<>>
  /\ validCalls = <<>>
  /\ parentIds = <<>>

InitPages ==
  /\ NoEngines
  /\ quiltDoc \in StoredDocs
  /\ pages = [c \in Clients |-> NewPage]
  /\ server = <<>>
  /\ requests = <<>>

\* page c runs loadQuilt() up to the await of saveQuilt's setDoc (no
\* document of today: reset) or to its end (the blocks of the document
\* read by getDoc are taken over)
LoadQuilt(c) ==
  /\ pages[c].pc = "start"
  /\ pages' =
       [pages EXCEPT
          ![c] = IF ~quiltDoc.exists \/ quiltDoc.date # TODAY
                   THEN [@ EXCEPT !.blocks = DefaultBlocks,
                                  !.pending = GetQuiltData(DefaultBlocks),
                                  !.pc = "resetSave"]
                   ELSE [@ EXCEPT !.blocks = quiltDoc.blocks,
                                  !.pc = "idle"]]
  /\ UNCHANGED <<quiltDoc, server, requests>>
  /\ UNCHANGED engineVars

\* page c runs handleAddColor() with the selected colour up to the await
\* of saveQuilt's setDoc; nothing is saved when addColor returns false
HandleAddColor(c, selectedColor, ratioPct) ==
  /\ pages[c].pc = "idle"
  /\ Len(pages[c].added) < PageColors
  /\ LET r == QuiltManagerAddColor(pages[c].blocks, selectedColor, ratioPct)
     IN  pages' =
           [pages EXCEPT
              ![c] = IF r.success
                       THEN [@ EXCEPT !.blocks = r.blocks,
                                      !.pending = GetQuiltData(r.blocks),
                                      !.added = Append(@, selectedColor),
                                      !.pc = "addSave"]
                       ELSE @]
  /\ UNCHANGED <<quiltDoc, server, requests>>
  /\ UNCHANGED engineVars

\* the setDoc sent by page c's saveQuilt() replaces the stored document
SetDoc(c) ==
  /\ pages[c].pc \in {"resetSave", "addSave"}
  /\ quiltDoc' = pages[c].pending
  /\ pages' = [pages EXCEPT ![c].pc = "idle"]
  /\ UNCHANGED <<server, requests>>
  /\ UNCHANGED engineVars

NextPages ==
  \E c \in Clients :
    \/ LoadQuilt(c)
    \/ \E selectedColor \in PageInputColors, ratioPct \in PageRatios :
         HandleAddColor(c, selectedColor, ratioPct)
    \/ SetDoc(c)

SpecPages == InitPages /\ [][NextPages]_vars

\* ===== THE IMAGE SERVER WITH A PRE-LOADED BROWSER =====
\* The module is loaded (initializeBrowser() is called and runs to its
\* first await), then up to MaxRequests requests to /api/generate-instagram,
\* /api/test and /api/reset-browser arrive at any time.  Every await of
\* initializeBrowser is a step at which the handlers interleave;
\* chromium.launch() and the page load may fail.  A browser is the number
\* of the launch that opened it, null is 0.
RequestKinds == {"generate", "test", "reset"}
Calls == 1..(1 + MaxRequests)

\* let globalBrowser = null ... initializationAttempts = 0; no browser is
\* open
NewServer ==
  [globalBrowser |-> 0, globalPage |-> 0, isPageReady |-> FALSE,
   initializationAttempts |-> 0, open |-> {}, launched |-> 0]

NoRequest == [kind |-> "none", pc |-> "idle", browser |-> 0]

\* initializeBrowser() up to its first await: the attempt is counted, and
\* close() is called on the browser held, or else chromium.launch()
InitializeBrowser(sv, kind) ==
  [server |-> [sv EXCEPT !.initializationAttempts = @ + 1],
   request |-> [kind |-> kind,
                pc |-> IF sv.globalBrowser # 0 THEN "closing"
                       ELSE "launching",
                browser |-> sv.globalBrowser]]

\* ensureBrowserReady() up to its first await, or to its return
EnsureBrowserReady(sv, kind) ==
  IF ~sv.isPageReady \/ sv.globalPage = 0
    THEN InitializeBrowser(sv, kind)
    ELSE [server |-> sv,
          request |-> [kind |-> kind, pc |-> "done", browser |-> 0]]

\* the catch block of initializeBrowser
InitializeFailed(sv) == [sv EXCEPT !.isPageReady = FALSE]

InitServer ==
  /\ NoEngines
  /\ quiltDoc = <<>>
  /\ pages = <<>>
  /\ server = InitializeBrowser(NewServer, "startup").server
  /\ requests =
       [r \in Calls |->
          IF r = 1 THEN InitializeBrowser(NewServer, "startup").request
          ELSE NoRequest]

\* the variables after call r has moved on
Handled(r, sv, request) ==
  /\ server' = sv
  /\ requests' = [requests EXCEPT ![r] = request]
  /\ UNCHANGED <<quiltDoc, pages>>
  /\ UNCHANGED engineVars

\* request r arrives: the handler runs to its first await
Receive(r, kind) ==
  /\ requests[r].kind = "none"
  /\ LET begun ==
           IF kind = "reset"
             THEN InitializeBrowser([server EXCEPT !.isPageReady = FALSE],
                                    kind)
             ELSE EnsureBrowserReady(server, kind)
     IN  Handled(r, begun.server, begun.request)

\* await globalBrowser.close() of call r is over: the browser is closed
\* and chromium.launch() is called
BrowserClosed(r) ==
  /\ requests[r].pc = "closing"
  /\ Handled(r, [server EXCEPT !.open = @ \ {requests[r].browser}],
             [requests[r] EXCEPT !.pc = "launching", !.browser = 0])

\* await chromium.launch() of call r is over: the browser opened is
\* assigned to globalBrowser and newPage() is called on it, or the launch
\* failed
BrowserLaunched(r, ok) ==
  /\ requests[r].pc = "launching"
  /\ IF ok
       THEN Handled(r, [server EXCEPT !.launched = @ + 1,
                                      !.open = @ \cup {server.launched + 1},
                                      !.globalBrowser = server.launched + 1],
                    [requests[r] EXCEPT !.pc = "newPage",
                                        !.browser = server.launched + 1])
       ELSE Handled(r, InitializeFailed(server),
                    [requests[r] EXCEPT !.pc = "done"])

\* await globalBrowser.newPage() of call r is over: the page is assigned
\* to globalPage and goto() is called on it; newPage() fails on a browser
\* that was closed meanwhile
PageOpened(r) ==
  /\ requests[r].pc = "newPage"
  /\ IF requests[r].browser \in server.open
       THEN Handled(r, [server EXCEPT !.globalPage = requests[r].browser],
                    [requests[r] EXCEPT !.pc = "loading"])
       ELSE Handled(r, InitializeFailed(server),
                    [requests[r] EXCEPT !.pc = "done"])

\* await goto() and await waitForFunction() of call r are over: the page
\* is ready, or one of them failed (always so on a closed browser)
PageLoaded(r, ok) ==
  /\ requests[r].pc = "loading"
  /\ IF ok /\ requests[r].browser \in server.open
       THEN Handled(r, [server EXCEPT !.isPageReady = TRUE,
                                      !.initializationAttempts = 0],
                    [requests[r] EXCEPT !.pc = "done"])
       ELSE Handled(r, InitializeFailed(server),
                    [requests[r] EXCEPT !.pc = "done"])

NextServer ==
  \E r \in Calls :
    \/ \E kind \in RequestKinds : Receive(r, kind)
    \/ BrowserClosed(r)
    \/ \E ok \in BOOLEAN : BrowserLaunched(r, ok)
    \/ PageOpened(r)
    \/ \E ok \in BOOLEAN : PageLoaded(r, ok)

SpecServer == InitServer /\ [][NextServer]_vars

\* ===== PROPERTIES =====
\* two rectangles intersect with positive area
Intersect(p, q) ==
  /\ p.x < q.x + q.width /\ q.x < p.x + p.width
  /\ p.y < q.y + q.height /\ q.y < p.y + p.height

NoOverlap(shapes) ==
  \A i, j \in 1..Len(shapes) :
     i < j => ~Intersect(shapes[i].position, shapes[j].position)

\* no overlap, and the areas add up to the area of the bounding rectangle:
\* the shapes tile the bounding rectangle exactly
ExactTiling(shapes) ==
  /\ NoOverlap(shapes)
  /\ SumAreas(shapes, 1) =
       GetQuiltBounds(shapes).width * GetQuiltBounds(shapes).height

\* engine e made an addColor call with a parseable colour in this step
ValidCallBy(e) == validCalls'[e] = validCalls[e] + 1

\* C1: after every addColor call the shapes tile their bounding rectangle
\* exactly: no two intersect with positive area and nothing is uncovered.
CoverageInvariant ==
  \A e \in Engines : ExactTiling(appState[e].shapes)

\* C2: after initialize() and after every addColor call, every shape is at
\* least MIN_SHAPE_SIZE wide and MIN_SHAPE_SIZE high.
MinimumSize ==
  \A e \in Engines :
    \A k \in 1..Len(appState[e].shapes) :
       /\ appState[e].shapes[k].position.width >= MIN_SHAPE_SIZE
       /\ appState[e].shapes[k].position.height >= MIN_SHAPE_SIZE

\* C2 witness: a call returned after the guard of ensureNoGaps raised a
\* width to MIN_SHAPE_SIZE (the tiling is no longer exact).
MinimumSizeWitness ==
  \E e \in Engines :
    /\ lastCall[e].outcome = "ok"
    /\ ~ExactTiling(appState[e].shapes)
    /\ \E k \in 1..Len(appState[e].shapes) :
          appState[e].shapes[k].position.width = MIN_SHAPE_SIZE

\* C3: every addColor call with a parseable colour returns a result; none
\* ends in an exception.
AddColorNeverThrows ==
  \A e \in Engines :
    (lastCall[e].outcome # "none" /\ HexToRgb(lastCall[e].color) # NULL_RGB)
      => lastCall[e].outcome = "ok"

\* C4: the phase is PRE_FREEZE exactly while submissionCount < 20 and
\* POST_FREEZE from 20 on; nothing is frozen before; the freeze happens in
\* the call that makes the count 20, captures the colours of the shapes of
\* that moment and leaves every shape a KEY_SHAPE; afterwards the phase, the frozen
\* colours and the family index never change again.
PhaseMachine ==
  /\ [](\A e \in Engines :
          /\ appState[e].phase = "PRE_FREEZE"
               <=> appState[e].submissionCount < FREEZE_THRESHOLD
          /\ appState[e].phase = "POST_FREEZE"
               <=> appState[e].submissionCount >= FREEZE_THRESHOLD
          /\ appState[e].phase = "PRE_FREEZE"
               => /\ appState[e].keyShapesColorArray = <<>>
                  /\ appState[e].colorFamilies = <<>>)
  /\ [][\A e \in Engines :
          /\ (appState[e].phase = "PRE_FREEZE"
                /\ appState'[e].phase = "POST_FREEZE")
               => /\ appState'[e].submissionCount = FREEZE_THRESHOLD
                  /\ appState'[e].keyShapesColorArray =
                       [k \in 1..Len(appState[e].shapes) |->
                          appState[e].shapes[k].color]
                  /\ \A k \in 1..Len(appState'[e].shapes) :
                        appState'[e].shapes[k].type = "KEY_SHAPE"
          /\ appState[e].phase = "POST_FREEZE"
               => /\ appState'[e].phase = "POST_FREEZE"
                  /\ appState'[e].keyShapesColorArray =
                       appState[e].keyShapesColorArray
                  /\ appState'[e].colorFamilies = appState[e].colorFamilies
     ]_vars

\* C4 witness: a call made after the freeze has returned.
PhaseMachineWitness ==
  \E e \in Engines :
    /\ appState[e].submissionCount = FREEZE_THRESHOLD + 1
    /\ appState[e].phase = "POST_FREEZE"
    /\ lastCall[e].outcome = "ok"

\* C5: submissionCount is the number of addColor calls made with a
\* parseable colour since initialize(); each such call adds exactly 1, a
\* call with an unparseable colour adds nothing, and the count never
\* decreases.
SubmissionCountMonotonic ==
  /\ [](\A e \in Engines : appState[e].submissionCount = validCalls[e])
  /\ [][\A e \in Engines :
          /\ appState'[e].submissionCount >= appState[e].submissionCount
          /\ ValidCallBy(e)
               => appState'[e].submissionCount
                    = appState[e].submissionCount + 1
     ]_vars

\* C5 witness: a call that ended in an exception after the colour was
\* validated has been counted, after several counted calls.
SubmissionCountWitness ==
  \E e \in Engines :
    /\ lastCall[e].outcome = "TypeError"
    /\ validCalls[e] = FREEZE_THRESHOLD
    /\ appState[e].submissionCount = FREEZE_THRESHOLD

\* the shape with the given id in a sequence of shapes
ShapeById(shapes, id) ==
  shapes[CHOOSE k \in 1..Len(shapes) : shapes[k].id = id]

HasId(shapes, id) == \E k \in 1..Len(shapes) : shapes[k].id = id

\* the squared distance of a colour to the nearest entry of a colour array
WithinOfSome(color, distance, colors) ==
  \E k \in 1..Len(colors) :
     GetColorDifferenceSquared(color, colors[k]) <= distance * distance

\* C7: after the freeze, a call with a colour further than 35 from every
\* frozen colour, made while no BORDER_SHAPE exists, succeeds, splits and
\* alters no existing shape, and adds exactly one BORDER_SHAPE of that
\* colour flush against one side of the previous bounds, which grow by its
\* thickness.
BorderGrowth ==
  [][\A e \in Engines :
       LET old == appState[e].shapes
           new == appState'[e].shapes
           b == GetQuiltBounds(old)
           b2 == GetQuiltBounds(new)
       IN  (/\ appState[e].phase = "POST_FREEZE"
            /\ ValidCallBy(e)
            /\ ~WithinOfSome(lastCall'[e].color, COLOR_SIMILARITY_THRESHOLD,
                             appState[e].keyShapesColorArray)
            /\ \A k \in 1..Len(old) : old[k].type # "BORDER_SHAPE")
           => /\ lastCall'[e].outcome = "ok"
              /\ Len(new) = Len(old) + 1
              /\ \A k \in 1..Len(old) : \E j \in 1..Len(new) : new[j] = old[k]
              /\ \E j \in 1..Len(new) :
                    /\ ~HasId(old, new[j].id)
                    /\ new[j].type = "BORDER_SHAPE"
                    /\ new[j].color = lastCall'[e].color
                    /\ \/ /\ new[j].position.y + new[j].position.height
                               = b.minY
                          /\ b2.height = b.height + new[j].position.height
                       \/ /\ new[j].position.y = b.maxY
                          /\ b2.height = b.height + new[j].position.height
                       \/ /\ new[j].position.x + new[j].position.width
                               = b.minX
                          /\ b2.width = b.width + new[j].position.width
                       \/ /\ new[j].position.x = b.maxX
                          /\ b2.width = b.width + new[j].position.width
    ]_vars

\* C8 as stated: after the freeze, a call with a colour within distance 10
\* of the colour of some existing KEY_SHAPE selects a KEY_SHAPE as split
\* target, and the new child is a KEY_SHAPE with the family label of the
\* shape it was split from.
SimilarColorWithinTen ==
  [][\A e \in Engines :
       (/\ appState[e].phase = "POST_FREEZE"
        /\ ValidCallBy(e)
        /\ \E k \in 1..Len(appState[e].shapes) :
              /\ appState[e].shapes[k].type = "KEY_SHAPE"
              /\ GetColorDifferenceSquared(lastCall'[e].color,
                                           appState[e].shapes[k].color)
                   <= 10 * 10)
       => /\ lastCall'[e].outcome = "ok"
          /\ lastCall'[e].targetType = "KEY_SHAPE"
          /\ HasId(appState'[e].shapes, lastCall'[e].shape2)
          /\ ShapeById(appState'[e].shapes, lastCall'[e].shape2).type
               = "KEY_SHAPE"
          /\ ShapeById(appState'[e].shapes, lastCall'[e].shape2).colorFamily
               = ShapeById(appState[e].shapes, lastCall'[e].target).colorFamily
    ]_vars

\* the splittable KEY_SHAPEs of state st that carry the family label of
\* the colour's hue
FamilyCandidates(st, color) ==
  {k \in 1..Len(st.shapes) :
     /\ st.shapes[k].type = "KEY_SHAPE"
     /\ st.shapes[k].colorFamily = GetColorFamilyName(color)
     /\ \/ st.shapes[k].position.width >= 2 * MIN_SHAPE_SIZE
        \/ st.shapes[k].position.height >= 2 * MIN_SHAPE_SIZE}

\* C8 amended: once the call has counted its submission and the phase is
\* POST_FREEZE, a colour within 35 of some frozen colour, when a splittable
\* KEY_SHAPE carries the family label of the colour's hue, is given to such
\* a KEY_SHAPE, the one whose colour is nearest; the new child is a
\* KEY_SHAPE of the submitted colour with the family label of the shape it
\* was split from.
SimilarColorJoinsFamily ==
  [][\A e \in Engines :
       LET st == AddSubmission(appState[e])
           color == lastCall'[e].color
           candidates == FamilyCandidates(st, color)
       IN  (/\ ValidCallBy(e)
            /\ appState'[e].phase = "POST_FREEZE"
            /\ st.phase = "POST_FREEZE"
            /\ WithinOfSome(color, COLOR_SIMILARITY_THRESHOLD,
                            st.keyShapesColorArray)
            /\ candidates # {})
           => /\ lastCall'[e].outcome = "ok"
              /\ lastCall'[e].targetType = "KEY_SHAPE"
              /\ \E k \in candidates :
                    /\ st.shapes[k].id = lastCall'[e].target
                    /\ \A j \in candidates :
                          GetColorDifferenceSquared(color, st.shapes[k].color)
                            <= GetColorDifferenceSquared(color,
                                                         st.shapes[j].color)
                    /\ ShapeById(appState'[e].shapes,
                                 lastCall'[e].shape2).colorFamily
                         = st.shapes[k].colorFamily
              /\ ShapeById(appState'[e].shapes, lastCall'[e].shape2).type
                   = "KEY_SHAPE"
              /\ ShapeById(appState'[e].shapes, lastCall'[e].shape2).color
                   = color
    ]_vars

\* C8 witness: after the freeze, a call with NEAR_COLOR has split a
\* KEY_SHAPE and its child is a KEY_SHAPE of family orange.
SimilarColorWitness ==
  \E e \in Engines :
    /\ appState[e].submissionCount = FREEZE_THRESHOLD + 1
    /\ lastCall[e].outcome = "ok"
    /\ lastCall[e].color = NEAR_COLOR
    /\ lastCall[e].targetType = "KEY_SHAPE"
    /\ ShapeById(appState[e].shapes, lastCall[e].shape2).type = "KEY_SHAPE"
    /\ ShapeById(appState[e].shapes, lastCall[e].shape2).colorFamily
         = "orange"

HexCharacters ==
  {"0", "1", "2", "3", "4", "5", "6", "7", "8", "9",
   "a", "b", "c", "d", "e", "f", "A", "B", "C", "D", "E", "F"}

\* a colour string that reads as a 6-digit hex colour: an optional "#" and
\* exactly six hex digits
IsHexColor(color) ==
  \/ /\ Len(color) = 6
     /\ \A i \in 1..6 : color[i] \in HexCharacters
  \/ /\ Len(color) = 7
     /\ color[1] = "#"
     /\ \A i \in 2..7 : color[i] \in HexCharacters

\* C10: an addColor call with a colour that is not a 6-digit hex colour
\* fails with InvalidColor and leaves submissionCount, phase, frozen
\* colours, family index and shapes (and the ids and contributions) as
\* they were.
InvalidColorRejected ==
  [][\A e \in Engines :
       (lastCall'[e].outcome # "none" /\ ~IsHexColor(lastCall'[e].color))
       => /\ lastCall'[e].outcome = "InvalidColor"
          /\ appState'[e] = appState[e]
          /\ generatedIds'[e] = generatedIds[e]
          /\ quiltContributions'[e] = quiltContributions[e]
          /\ validCalls'[e] = validCalls[e]
    ]_vars

\* C10 witness: an unparseable colour was rejected by the call that would
\* otherwise have been the freezing one.
InvalidColorWitness ==
  \E e \in Engines :
    /\ lastCall[e].outcome = "InvalidColor"
    /\ appState[e].submissionCount = FREEZE_THRESHOLD - 1
    /\ appState[e].phase = "PRE_FREEZE"
    /\ Len(appState[e].shapes) = FREEZE_THRESHOLD

\* how many times each colour occurs in a sequence of colours
ColorCounts(colors) ==
  [c \in {colors[k] : k \in 1..Len(colors)} |->
     Cardinality({k \in 1..Len(colors) : colors[k] = c})]

\* the colours of the calls engine e applied before the freezing call, in
\* call order (from the recorded contributions)
AppliedBeforeFreeze(e) ==
  SelectSeq(quiltContributions[e],
            LAMBDA c : c.submissionIndex < FREEZE_THRESHOLD)

AppliedColors(e) ==
  [k \in 1..Len(AppliedBeforeFreeze(e)) |-> AppliedBeforeFreeze(e)[k].color]

\* colour, family label and role of the shapes of engine e
LabelledColors(e) ==
  {<<appState[e].shapes[k].color, appState[e].shapes[k].colorFamily,
     appState[e].shapes[k].type>> : k \in 1..Len(appState[e].shapes)}

FamilyLabels(e) ==
  {appState[e].colorFamilies[k].key : k \in 1..Len(appState[e].colorFamilies)}

BothFrozen ==
  /\ Engines = {1, 2}
  /\ appState[1].phase = "POST_FREEZE"
  /\ appState[2].phase = "POST_FREEZE"

\* C6 as stated: two runs given the same 20 colours end the freezing call
\* with the same frozen colour sequence, the same family labels, and the
\* same family label and role for the shapes of each colour, whatever the
\* random draws.
FreezeDeterminism ==
  BothFrozen =>
    /\ appState[1].keyShapesColorArray = appState[2].keyShapesColorArray
    /\ FamilyLabels(1) = FamilyLabels(2)
    /\ LabelledColors(1) = LabelledColors(2)

\* C6 amended: in each run the frozen colours are, counted per colour, the
\* default colour of the first shape and the colours of the calls the run
\* applied before the freezing call, and every shape is a KEY_SHAPE after
\* the freezing call; so two runs given the same colours that applied the
\* same calls freeze the same colours, each as often, though possibly in
\* another order and under other family labels.
FrozenColorsDetermined ==
  /\ \A e \in Engines :
       appState[e].phase = "POST_FREEZE" =>
         /\ ColorCounts(appState[e].keyShapesColorArray)
              = ColorCounts(<<DEFAULT_COLOR>> \o AppliedColors(e))
         /\ \A k \in 1..Len(appState[e].shapes) :
               appState[e].shapes[k].type = "KEY_SHAPE"
  /\ BothFrozen /\ AppliedBeforeFreeze(1) = AppliedBeforeFreeze(2) =>
       ColorCounts(appState[1].keyShapesColorArray)
         = ColorCounts(appState[2].keyShapesColorArray)

\* C6 witness: two runs given the same colours, with the same calls
\* applied, have frozen the same colours in different orders and under
\* different family labels.
FrozenColorsWitness ==
  /\ BothFrozen
  /\ AppliedBeforeFreeze(1) = AppliedBeforeFreeze(2)
  /\ Len(AppliedBeforeFreeze(1)) = FREEZE_THRESHOLD - 1
  /\ appState[1].keyShapesColorArray # appState[2].keyShapesColorArray
  /\ FamilyLabels(1) # FamilyLabels(2)

\* C9: ensureNoGaps, run on two adjacent shapes whose only defect is a
\* 2-unit-wide overlap, leaves the two shapes without overlap and both at
\* least MIN_SHAPE_SIZE wide and high.
OverlapRepaired ==
  \A e \in Engines :
    lastCall[e].outcome = "repaired" =>
      /\ NoOverlap(appState[e].shapes)
      /\ \A k \in 1..Len(appState[e].shapes) :
            /\ appState[e].shapes[k].position.width >= MIN_SHAPE_SIZE
            /\ appState[e].shapes[k].position.height >= MIN_SHAPE_SIZE

\* the valid colours of the model's inputs
ValidColors == SeqToSet(PreFreezeColors) \cup PostFreezeColors

\* the direction getSplitDirection gives for the shape is one the shape can
\* be split in, and the only valid one when there is exactly one
DirectionCanSplit(shape, direction) ==
  /\ direction # "none"
  /\ CanSplit(shape, direction)
  /\ Len(GetValidSplitDirections(shape)) = 1
       => direction = GetValidSplitDirections(shape)[1]

\* selected is what selectShapeToSplit gave in state counted: a shape, when
\* one is selected, has a valid split direction and is given one
SelectedCanSplit(counted, selected, preferred) ==
  selected > 0 =>
    /\ IsSplittable(counted.shapes[selected])
    /\ DirectionCanSplit(counted.shapes[selected],
                         GetSplitDirection(counted.shapes[selected],
                                           preferred))

\* every addColor call that can follow state st (counted, once its
\* submission is counted) selects only splittable shapes
SelectsSplittable(counted) ==
  \A newColor \in ValidColors, preferred \in BOOLEAN :
    \A target \in TargetDraws(counted) :
       SelectedCanSplit(counted,
                        SelectShapeToSplit(counted, newColor, target),
                        preferred)

\* C11: no terminal shape is ever split: whatever colour and random draws
\* an addColor call is made with in a reachable state, the shape it selects
\* has a valid split direction and the direction chosen for it satisfies
\* canSplit (the only valid one when there is exactly one), and no call
\* has ended in the "cannot split" error.
NoTerminalSplit ==
  \A e \in Engines :
    /\ lastCall[e].outcome # "CannotSplit"
    /\ SelectsSplittable(AddSubmission(appState[e]))

\* C11 witness: a call has split a shape that follows, in the array, a
\* shape with no valid split direction; the shape it split had exactly one
\* valid direction (its halves are narrower than MIN_SHAPE_SIZE * 2 and
\* lie one above the other).
NoTerminalSplitWitness ==
  \E e \in Engines :
    /\ lastCall[e].outcome = "ok"
    /\ \E k, j \in 1..Len(appState[e].shapes) :
          /\ k < j
          /\ ~IsSplittable(appState[e].shapes[k])
          /\ appState[e].shapes[j].id = lastCall[e].shape1
          /\ appState[e].shapes[j + 1].id = lastCall[e].shape2
          /\ appState[e].shapes[j].position.width < MIN_SHAPE_SIZE * 2
          /\ appState[e].shapes[j + 1].position.x
               = appState[e].shapes[j].position.x
          /\ appState[e].shapes[j + 1].position.y
               = appState[e].shapes[j].position.y
                   + appState[e].shapes[j].position.height

\* the ids of the shapes the contributor's calls created (the recorded
\* contributions of engine e)
ContributedIds(e) ==
  {quiltContributions[e][k].shapeId : k \in 1..Len(quiltContributions[e])}

\* the lineage of the shape with the id, walking the parentId each shape
\* was constructed with until none remains, passes through one of the ids
RECURSIVE PassesThrough(_, _, _)
PassesThrough(parents, id, ancestorIds) ==
  IF id \in ancestorIds THEN TRUE
  ELSE IF parents[id] = 0 THEN FALSE
  ELSE PassesThrough(parents, parents[id], ancestorIds)

\* C12: findUserPieces returns every live shape whose lineage, through any
\* number of splits, passes through a shape the contributor created.
FindMyPieceSurvivesSplits ==
  \A e \in Engines :
    \A k \in 1..Len(appState[e].shapes) :
       PassesThrough(parentIds[e], appState[e].shapes[k].id,
                     ContributedIds(e))
         => appState[e].shapes[k]
              \in SeqToSet(FindUserPieces(appState[e].shapes,
                                          quiltContributions[e]))

\* the walk from the shape with the id along the parentIds: it meets no
\* id twice, stays among the ids of constructed shapes, and ends at a
\* shape whose parentId is null
RECURSIVE LineageEndsAtRoot(_, _, _)
LineageEndsAtRoot(parents, id, visited) ==
  IF id \in visited \/ id \notin DOMAIN parents THEN FALSE
  ELSE IF parents[id] = 0 THEN TRUE
  ELSE LineageEndsAtRoot(parents, parents[id], visited \cup {id})

\* the number of shapes on the walk from the shape with the id to the root
RECURSIVE LineageLength(_, _)
LineageLength(parents, id) ==
  IF parents[id] = 0 THEN 1 ELSE 1 + LineageLength(parents, parents[id])

\* C13: for every live shape, following the parentId links (each shape's
\* parentId is the one it was constructed with) terminates without meeting
\* a shape twice and ends at a shape whose parentId is null.
LineageIntegrity ==
  \A e \in Engines :
    \A k \in 1..Len(appState[e].shapes) :
       /\ appState[e].shapes[k].id \in DOMAIN parentIds[e]
       /\ appState[e].shapes[k].parentId
            = parentIds[e][appState[e].shapes[k].id]
       /\ LineageEndsAtRoot(parentIds[e], appState[e].shapes[k].id, {})

\* C13 witness: after the freeze a live shape is the fifth generation of
\* splits below the first shape.
LineageIntegrityWitness ==
  \E e \in Engines :
    /\ appState[e].phase = "POST_FREEZE"
    /\ \E k \in 1..Len(appState[e].shapes) :
          LineageLength(parentIds[e], appState[e].shapes[k].id) >= 6

\* the colours of a sequence of shapes, in order
ColorsOf(shapes) == [k \in 1..Len(shapes) |-> shapes[k].color]

\* C14: the frozen colours are exactly the colours, in shape order and
\* with repetitions, of the shapes that were live when the freezing call
\* began (the shape the freezing call adds is not among them), and no
\* call after the freeze changes the frozen colours or the family index.
FrozenDataFixed ==
  [][\A e \in Engines :
       /\ (appState[e].phase = "PRE_FREEZE"
             /\ appState'[e].phase = "POST_FREEZE")
            => /\ appState'[e].keyShapesColorArray
                    = ColorsOf(appState[e].shapes)
               /\ lastCall'[e].outcome = "ok"
                    => Len(appState'[e].keyShapesColorArray)
                         = Len(appState'[e].shapes) - 1
       /\ appState[e].phase = "POST_FREEZE"
            => /\ appState'[e].keyShapesColorArray
                    = appState[e].keyShapesColorArray
               /\ appState'[e].colorFamilies = appState[e].colorFamilies
    ]_vars

\* C14 witness: the freezing call and the call after it have each added a
\* shape; the frozen colours, several of them repeated, are two fewer than
\* the shapes.
FrozenDataWitness ==
  \E e \in Engines :
    /\ appState[e].submissionCount = FREEZE_THRESHOLD + 1
    /\ lastCall[e].outcome = "ok"
    /\ Len(appState[e].shapes) = Len(appState[e].keyShapesColorArray) + 2
    /\ Cardinality(SeqToSet(appState[e].keyShapesColorArray))
         < Len(appState[e].keyShapesColorArray)
    /\ appState[e].colorFamilies # <<>>

\* the shape with the id is, among the candidates of state st, one whose
\* colour is nearest to the colour
NearestCandidate(st, candidates, color, id) ==
  \E k \in candidates :
     /\ st.shapes[k].id = id
     /\ \A j \in candidates :
           GetColorDifferenceSquared(color, st.shapes[k].color)
             <= GetColorDifferenceSquared(color, st.shapes[j].color)

\* C15: in the addColor call that makes submissionCount 20 the freeze is
\* complete before the target is selected and before the new shape's role
\* is assigned: when the call splits a shape, the colour is within 35 of a
\* frozen colour and the target is the nearest splittable KEY_SHAPE that
\* carries the family label of the colour's hue (the post-freeze rule, not
\* a random shape), and the shape created for submission 20 is relabelled
\* by handlePostFreezeLogic: a KEY_SHAPE with the family of its own colour.
FreezeBeforeProcessing ==
  [][\A e \in Engines :
       (/\ appState[e].phase = "PRE_FREEZE"
        /\ appState'[e].phase = "POST_FREEZE")
       => /\ ValidCallBy(e)
          /\ appState'[e].submissionCount = FREEZE_THRESHOLD
          /\ AddSubmission(appState[e]).phase = "POST_FREEZE"
          /\ lastCall'[e].outcome = "ok"
               => /\ lastCall'[e].submissionIndex = FREEZE_THRESHOLD
                  /\ WithinOfSome(lastCall'[e].color,
                                  COLOR_SIMILARITY_THRESHOLD,
                                  appState'[e].keyShapesColorArray)
                  /\ NearestCandidate(
                       AddSubmission(appState[e]),
                       FamilyCandidates(AddSubmission(appState[e]),
                                        lastCall'[e].color),
                       lastCall'[e].color, lastCall'[e].target)
                  /\ ShapeById(appState'[e].shapes,
                               lastCall'[e].shape2).type = "KEY_SHAPE"
                  /\ ShapeById(appState'[e].shapes,
                               lastCall'[e].shape2).colorFamily
                       = GetColorFamilyName(lastCall'[e].color)
    ]_vars

\* C15 witness: the freezing call has split a shape that was not the first
\* splittable one, and the shape of submission 20 carries a family label.
FreezeBeforeProcessingWitness ==
  \E e \in Engines :
    /\ appState[e].submissionCount = FREEZE_THRESHOLD
    /\ lastCall[e].outcome = "ok"
    /\ lastCall[e].submissionIndex = FREEZE_THRESHOLD
    /\ ShapeById(appState[e].shapes, lastCall[e].shape2).colorFamily
         # "null"
    /\ \E k \in 1..Len(appState[e].shapes) :
          /\ IsSplittable(appState[e].shapes[k])
          /\ appState[e].shapes[k].id < lastCall[e].shape1
          /\ \A j \in 1..Len(appState[e].shapes) :
                appState[e].shapes[j].id = lastCall[e].shape1 => k < j

\* frozen holds the shapes of before, in the same order, each a KEY_SHAPE
SameShapesAsKeys(frozen, before) ==
  /\ Len(frozen) = Len(before)
  /\ \A k \in 1..Len(before) :
        /\ frozen[k].id = before[k].id
        /\ frozen[k].position = before[k].position
        /\ frozen[k].color = before[k].color
        /\ frozen[k].type = "KEY_SHAPE"

\* C16: when the 20th addColor call flips the phase, the state right
\* after the freeze (the call's submission counted, nothing selected yet)
\* holds the shapes that existed just before the call, in the same order,
\* every one a KEY_SHAPE; those of them still live when the call returns
\* are KEY_SHAPEs.
RolesAtFreeze ==
  [][\A e \in Engines :
       (/\ appState[e].phase = "PRE_FREEZE"
        /\ appState'[e].phase = "POST_FREEZE")
       => /\ SameShapesAsKeys(AddSubmission(appState[e]).shapes,
                               appState[e].shapes)
          /\ \A k \in 1..Len(appState'[e].shapes) :
                HasId(appState[e].shapes, appState'[e].shapes[k].id)
                  => appState'[e].shapes[k].type = "KEY_SHAPE"
    ]_vars

\* C16 witness: the freezing call ended right after the freeze (its
\* selection threw): the 20 shapes that existed before it are all live,
\* all KEY_SHAPEs, each with a family label.
RolesAtFreezeWitness ==
  \E e \in Engines :
    /\ appState[e].submissionCount = FREEZE_THRESHOLD
    /\ appState[e].phase = "POST_FREEZE"
    /\ lastCall[e].outcome = "TypeError"
    /\ Len(appState[e].shapes) = FREEZE_THRESHOLD
    /\ \A k \in 1..Len(appState[e].shapes) :
          /\ appState[e].shapes[k].type = "KEY_SHAPE"
          /\ appState[e].shapes[k].colorFamily # "null"

\* the rectangle of the first shape
SeedRectangle == InitialShape(1).position

\* C17: initialize() followed by addColor("#ff0000") leaves exactly two
\* shapes that partition the rectangle of the first shape, one of the
\* default colour and one of colour #ff0000, with submissionCount 1 and
\* phase PRE_FREEZE, whatever the split ratio and the direction drawn.
ScenarioFirstContribution ==
  \A e \in Engines :
    (validCalls[e] = 1 /\ lastCall[e].color = RED_COLOR)
      => /\ lastCall[e].outcome = "ok"
         /\ Len(appState[e].shapes) = 2
         /\ ExactTiling(appState[e].shapes)
         /\ GetQuiltBounds(appState[e].shapes).minX = SeedRectangle.x
         /\ GetQuiltBounds(appState[e].shapes).minY = SeedRectangle.y
         /\ GetQuiltBounds(appState[e].shapes).width = SeedRectangle.width
         /\ GetQuiltBounds(appState[e].shapes).height = SeedRectangle.height
         /\ \E k, j \in 1..2 :
               /\ k # j
               /\ appState[e].shapes[k].color = DEFAULT_COLOR
               /\ appState[e].shapes[j].color = RED_COLOR
         /\ appState[e].submissionCount = 1
         /\ appState[e].phase = "PRE_FREEZE"

\* C17 witness: the first call was made with #ff0000, drew the direction
\* that is not preferred (a vertical cut of the square) and the largest
\* ratio: the red shape is the right-hand part, 310 wide.
ScenarioFirstWitness ==
  \E e \in Engines :
    /\ validCalls[e] = 1
    /\ lastCall[e].color = RED_COLOR
    /\ lastCall[e].outcome = "ok"
    /\ appState[e].shapes[2].color = RED_COLOR
    /\ appState[e].shapes[2].position
         = [x |-> 690, y |-> 0, width |-> 310, height |-> 1000]

\* both extents of every shape of the sequence are at least MIN_SHAPE_SIZE
AtLeastMinimum(shapes) ==
  \A k \in 1..Len(shapes) :
     /\ shapes[k].position.width >= MIN_SHAPE_SIZE
     /\ shapes[k].position.height >= MIN_SHAPE_SIZE

\* the two shapes split returns for the selected shape of state counted
\* (none when nothing is selected)
SplitOfSelected(counted, newColor, d, selected) ==
  IF selected <= 0 THEN <<>>
  ELSE SplitSelected(counted.shapes[selected], newColor,
                     GetSplitDirection(counted.shapes[selected], d.preferred),
                     counted.submissionCount, d.ratioPct, 0)

\* every addColor call that can follow the state (counted, once its
\* submission is counted) splits into shapes of at least MIN_SHAPE_SIZE
SplitsAtLeastMinimum(counted) ==
  \A newColor \in ValidColors, preferred \in BOOLEAN :
    \A target \in TargetDraws(counted), ratioPct \in {30, 50} :
       AtLeastMinimum(
         SplitOfSelected(counted, newColor,
                         [target |-> target, preferred |-> preferred,
                          ratioPct |-> ratioPct],
                         SelectShapeToSplit(counted, newColor, target)))

\* C18: the minimum-size guard of ensureNoGaps never fires: in no addColor
\* call made in a reachable state does split return, for the shape
\* selected, a shape narrower or lower than MIN_SHAPE_SIZE.
GuardNeverFires ==
  \A e \in Engines : SplitsAtLeastMinimum(AddSubmission(appState[e]))

\* the extent of a position along a split direction
ExtentAlong(position, direction) ==
  IF direction = "horizontal" THEN position.height ELSE position.width

\* shape1 and shape2 cut the rectangle of tile in two along the direction:
\* shape1 is the top part (horizontal) or the left part (vertical), shape2
\* the rest, and the cut lies between 30% and 70% of the extent
CutsInTwo(tile, shape1, shape2, direction) ==
  /\ shape1.position.x = tile.position.x
  /\ shape1.position.y = tile.position.y
  /\ ~Intersect(shape1.position, shape2.position)
  /\ Area(shape1) + Area(shape2) = Area(tile)
  /\ 100 * ExtentAlong(shape1.position, direction)
       >= 30 * ExtentAlong(tile.position, direction)
  /\ 100 * ExtentAlong(shape1.position, direction)
       <= 70 * ExtentAlong(tile.position, direction)
  /\ IF direction = "horizontal"
       THEN /\ shape1.position.width = tile.position.width
            /\ shape2.position.width = tile.position.width
            /\ shape2.position.x = tile.position.x
            /\ shape2.position.y = tile.position.y + shape1.position.height
            /\ shape1.position.height + shape2.position.height
                 = tile.position.height
       ELSE /\ shape1.position.height = tile.position.height
            /\ shape2.position.height = tile.position.height
            /\ shape2.position.y = tile.position.y
            /\ shape2.position.x = tile.position.x + shape1.position.width
            /\ shape1.position.width + shape2.position.width
                 = tile.position.width

\* engine e called split on its shape in this step
SplitCalledBy(e) ==
  lastCall[e].outcome = "none" /\ lastCall'[e].outcome # "none"

\* C19: split on a shape that canSplit in the direction returns two shapes
\* whose rectangles are disjoint and together are exactly the shape's
\* rectangle, cut at a fraction between 0.30 and 0.70 of the extent along
\* the direction; horizontal: the first is the top part (same x, y and
\* width); vertical: the first is the left part (same x, y and height);
\* the shape split was called on is left as it was.
SplitGeometry ==
  [][\A e \in Engines :
       (SplitCalledBy(e)
          /\ CanSplit(appState[e].shapes[1], lastCall'[e].direction))
       => /\ lastCall'[e].outcome = "split"
          /\ Len(appState'[e].shapes) = 3
          /\ appState'[e].shapes[1] = appState[e].shapes[1]
          /\ CutsInTwo(appState[e].shapes[1], appState'[e].shapes[2],
                       appState'[e].shapes[3], lastCall'[e].direction)
    ]_vars

\* C19 witness: an 80-wide shape at origin (300, 10) was split vertically
\* at the largest ratio: the left part is 56 wide, the right part 24.
SplitGeometryWitness ==
  \E e \in Engines :
    /\ lastCall[e].outcome = "split"
    /\ lastCall[e].direction = "vertical"
    /\ appState[e].shapes[1].position.x = 300
    /\ appState[e].shapes[1].position.width = 80
    /\ appState[e].shapes[2].position.width = 56
    /\ appState[e].shapes[3].position.x = 356
    /\ appState[e].shapes[3].position.width = 24

\* shape1 and shape2 carry the attributes split gives them for tile and
\* the arguments of the call
AttributedTo(tile, shape1, shape2, call) ==
  /\ shape1.color = tile.color
  /\ shape1.contributorId = tile.contributorId
  /\ shape1.submissionIndex = tile.submissionIndex
  /\ shape2.color = call.color
  /\ shape2.contributorId = call.contributorId
  /\ shape2.submissionIndex = call.submissionIndex
  /\ shape2.parentId = tile.id
  /\ shape1.type = tile.type
  /\ shape2.type = tile.type
  /\ shape1.colorFamily = tile.colorFamily
  /\ shape2.colorFamily = tile.colorFamily

\* C20: of the two shapes split returns, the first carries the colour,
\* contributorId and submissionIndex of the shape that was split, the
\* second the new colour, the contributorId and submissionIndex the call
\* was given and the id of the shape that was split as parentId, and both
\* carry its type and its colorFamily.
SplitAttribution ==
  [][\A e \in Engines :
       (SplitCalledBy(e) /\ lastCall'[e].outcome = "split")
       => /\ lastCall'[e].shape1 = appState'[e].shapes[2].id
          /\ lastCall'[e].shape2 = appState'[e].shapes[3].id
          /\ AttributedTo(appState[e].shapes[1], appState'[e].shapes[2],
                          appState'[e].shapes[3], lastCall'[e])
    ]_vars

\* C20 witness: a BORDER_SHAPE contributed by another device in submission
\* 21 was split for a third contributor's colour #ff0000 in submission 22.
SplitAttributionWitness ==
  \E e \in Engines :
    /\ lastCall[e].outcome = "split"
    /\ lastCall[e].contributorId = "third"
    /\ lastCall[e].color = RED_COLOR
    /\ appState[e].shapes[1].type = "BORDER_SHAPE"
    /\ appState[e].shapes[2].contributorId = "other"
    /\ appState[e].shapes[2].submissionIndex = 21
    /\ appState[e].shapes[3].contributorId = "third"
    /\ appState[e].shapes[3].submissionIndex = 22
    /\ appState[e].shapes[3].type = "BORDER_SHAPE"

\* the shapes of before that are KEY_SHAPEs are all among the shapes of
\* after, as they were
KeyShapesKept(before, after) ==
  \A k \in 1..Len(before) :
     before[k].type = "KEY_SHAPE"
       => \E j \in 1..Len(after) : after[j] = before[k]

\* C21: once the phase is POST_FREEZE, a call with a colour further than 35
\* from every frozen colour gets a border target, never a KEY_SHAPE: it
\* splits an existing BORDER_SHAPE or adds a new BORDER_SHAPE, and every
\* KEY_SHAPE stays as it was.
DissimilarGoesToBorder ==
  [][\A e \in Engines :
       (/\ ValidCallBy(e)
        /\ appState'[e].phase = "POST_FREEZE"
        /\ ~WithinOfSome(lastCall'[e].color, COLOR_SIMILARITY_THRESHOLD,
                         appState'[e].keyShapesColorArray))
       => /\ lastCall'[e].outcome = "ok"
          /\ lastCall'[e].targetType # "KEY_SHAPE"
          /\ KeyShapesKept(AddSubmission(appState[e]).shapes,
                           appState'[e].shapes)
          /\ \E j \in 1..Len(appState'[e].shapes) :
                /\ appState'[e].shapes[j].type = "BORDER_SHAPE"
                /\ appState'[e].shapes[j].color = lastCall'[e].color
                /\ ~HasId(appState[e].shapes, appState'[e].shapes[j].id)
    ]_vars

\* the first shape in array order, among the candidates of state st, whose
\* colour is at the smallest distance from the colour
FirstNearest(st, candidates, color) ==
  CHOOSE k \in candidates :
     /\ \A j \in candidates :
           GetColorDifferenceSquared(color, st.shapes[k].color)
             <= GetColorDifferenceSquared(color, st.shapes[j].color)
     /\ \A j \in candidates :
           j < k => GetColorDifferenceSquared(color, st.shapes[k].color)
                      < GetColorDifferenceSquared(color, st.shapes[j].color)

\* the results the call can have in state st (its submission counted) when
\* its target is the one border selection gives
BorderSelectionCalls(st, e, color) ==
  {AddColorSelected(st, generatedIds[e], quiltContributions[e], color, d,
                    SelectBorderShape(st, color)).call :
     d \in Draws(appState[e])}

\* the call of engine e, in state st once its submission is counted, took
\* the key target among the candidates, or fell through to border selection
\* when there is none
KeySelection(st, e, color, candidates) ==
  IF candidates # {}
    THEN /\ lastCall'[e].outcome = "ok"
         /\ lastCall'[e].targetType = "KEY_SHAPE"
         /\ lastCall'[e].target
              = st.shapes[FirstNearest(st, candidates, color)].id
    ELSE lastCall'[e] \in BorderSelectionCalls(st, e, color)

\* C22: once the phase is POST_FREEZE, a call with a colour within 35 of
\* some frozen colour takes as target, among the splittable KEY_SHAPEs that
\* carry the family label of the colour's hue, the first in array order of
\* those at the smallest colour distance; when there is no such KEY_SHAPE
\* the call goes on with border selection.
PostFreezeKeySelection ==
  [][\A e \in Engines :
       (/\ ValidCallBy(e)
        /\ appState'[e].phase = "POST_FREEZE"
        /\ WithinOfSome(lastCall'[e].color, COLOR_SIMILARITY_THRESHOLD,
                        appState'[e].keyShapesColorArray))
       => KeySelection(AddSubmission(appState[e]), e, lastCall'[e].color,
                       FamilyCandidates(AddSubmission(appState[e]),
                                        lastCall'[e].color))
    ]_vars

\* C22 witness: after the freeze a call took the first of several
\* candidates at the same distance: the half that kept the target's colour
\* is followed, later in the array, by an older splittable KEY_SHAPE of
\* that colour and family.
PostFreezeKeyWitness ==
  \E e \in Engines :
    /\ appState[e].phase = "POST_FREEZE"
    /\ lastCall[e].outcome = "ok"
    /\ lastCall[e].submissionIndex >= FREEZE_THRESHOLD
    /\ \E k, j \in 1..Len(appState[e].shapes) :
          /\ k < j
          /\ appState[e].shapes[k].id = lastCall[e].shape1
          /\ appState[e].shapes[j].id < lastCall[e].target
          /\ appState[e].shapes[j].type = "KEY_SHAPE"
          /\ appState[e].shapes[j].color = appState[e].shapes[k].color
          /\ appState[e].shapes[j].colorFamily
               = appState[e].shapes[k].colorFamily
          /\ IsSplittable(appState[e].shapes[j])

\* the BORDER_SHAPEs of state st with a valid split direction
SplittableBorders(st) ==
  {k \in 1..Len(st.shapes) :
     st.shapes[k].type = "BORDER_SHAPE" /\ IsSplittable(st.shapes[k])}

\* those of them whose colour is within 35 of the colour
SimilarBorders(st, color) ==
  {k \in SplittableBorders(st) : IsColorSimilar(color, st.shapes[k].color)}

\* the first shape in array order, among the candidates, of the largest area
FirstLargest(st, candidates) ==
  CHOOSE k \in candidates :
     /\ \A j \in candidates : Area(st.shapes[k]) >= Area(st.shapes[j])
     /\ \A j \in candidates :
           j < k => Area(st.shapes[k]) > Area(st.shapes[j])

\* C23: selectBorderShape takes, among the BORDER_SHAPEs with a valid split
\* direction, the one nearest in colour when some are within 35 of the new
\* colour (the first of them on ties), otherwise the one of largest area
\* (the first on ties); the creation of a new border shape is entered only
\* when no BORDER_SHAPE with a valid split direction exists.
BorderSelectionOrder ==
  \A e \in Engines :
    lastCall[e].outcome \in {"selected", "TypeError"} =>
      IF SimilarBorders(appState[e], lastCall[e].color) # {}
        THEN lastCall[e].target
               = appState[e].shapes[
                   FirstNearest(appState[e],
                                SimilarBorders(appState[e],
                                               lastCall[e].color),
                                lastCall[e].color)].id
      ELSE IF SplittableBorders(appState[e]) # {}
        THEN lastCall[e].target
               = appState[e].shapes[
                   FirstLargest(appState[e],
                                SplittableBorders(appState[e]))].id
      ELSE lastCall[e].outcome = "TypeError"

\* C23 witness: no border shape is similar to the new colour, the first
\* border shape has no valid split direction, and the two others, of
\* different widths, have the same area: the first of the two was selected.
BorderSelectionWitness ==
  \E e \in Engines :
    /\ lastCall[e].outcome = "selected"
    /\ SimilarBorders(appState[e], lastCall[e].color) = {}
    /\ lastCall[e].target = appState[e].shapes[3].id
    /\ Len(appState[e].shapes) = 4
    /\ ~IsSplittable(appState[e].shapes[2])
    /\ Area(appState[e].shapes[4]) = Area(appState[e].shapes[3])
    /\ appState[e].shapes[4].position.width
         # appState[e].shapes[3].position.width

\* the shape is classified as handlePostFreezeLogic classifies a shape of
\* the colour against the frozen colours
ClassifiedFor(shape, color, frozenColors) ==
  /\ shape.color = color
  /\ IF WithinOfSome(color, COLOR_SIMILARITY_THRESHOLD, frozenColors)
       THEN /\ shape.type = "KEY_SHAPE"
            /\ shape.colorFamily = GetColorFamilyName(color)
       ELSE shape.type = "BORDER_SHAPE"

\* C24: after each successful addColor call in POST_FREEZE, the shape
\* created for the contribution is a KEY_SHAPE labelled with the family of
\* its colour's hue when its colour is within 35 of some frozen colour, and
\* a BORDER_SHAPE otherwise, whatever the type of the shape it was split
\* from.
PostFreezeRole ==
  [][\A e \in Engines :
       (/\ ValidCallBy(e)
        /\ appState'[e].phase = "POST_FREEZE"
        /\ lastCall'[e].outcome = "ok")
       => /\ HasId(appState'[e].shapes, lastCall'[e].shape2)
          /\ ClassifiedFor(ShapeById(appState'[e].shapes,
                                     lastCall'[e].shape2),
                           lastCall'[e].color,
                           appState'[e].keyShapesColorArray)
    ]_vars

\* C24 witness: a colour within 35 of a frozen colour was given to a
\* BORDER_SHAPE (no KEY_SHAPE carried its family label): the new shape is a
\* KEY_SHAPE, the half that kept the old colour a BORDER_SHAPE.
PostFreezeRoleWitness ==
  \E e \in Engines :
    /\ lastCall[e].outcome = "ok"
    /\ lastCall[e].targetType = "BORDER_SHAPE"
    /\ ShapeById(appState[e].shapes, lastCall[e].shape1).type
         = "BORDER_SHAPE"
    /\ ShapeById(appState[e].shapes, lastCall[e].shape2).type = "KEY_SHAPE"
    /\ ShapeById(appState[e].shapes, lastCall[e].shape2).colorFamily
         = "orange"

\* the groups (entries of the Map groupSimilarColors returns) that hold
\* the colour
GroupsHolding(groups, color) ==
  {g \in 1..Len(groups) : color \in SeqToSet(groups[g].value)}

\* a group is its seed, labelled with the family of the seed's hue, and
\* colours within 35 of the seed
SeededGroup(group) ==
  /\ Len(group.value) > 0
  /\ group.key = GetColorFamilyName(group.value[1])
  /\ \A k \in 1..Len(group.value) :
        IsColorSimilar(group.value[1], group.value[k])

\* the groups partition the colours: every colour is in exactly one group
PartitionedBy(groups, colors) ==
  /\ \A k \in 1..Len(colors) :
        Cardinality(GroupsHolding(groups, colors[k])) = 1
  /\ \A g \in 1..Len(groups) : SeededGroup(groups[g])

\* C25: the grouping of the frozen colours made at the freeze is a
\* partition: every frozen colour is in exactly one of the groups kept for
\* labelling, each group being a seed labelled with the family of its hue
\* and colours within 35 of it; no group is dropped or replaced.
GroupingIsPartition ==
  \A e \in Engines :
    appState[e].phase = "POST_FREEZE"
      => PartitionedBy(GroupSimilarColors(appState[e].keyShapesColorArray),
                       appState[e].keyShapesColorArray)

\* the id is listed in the family index under the label
IndexedUnder(colorFamilies, label, id) ==
  \E g \in 1..Len(colorFamilies) :
     /\ colorFamilies[g].key = label
     /\ id \in SeqToSet(colorFamilies[g].value)

\* every shape of the state carries a family label and is listed in the
\* family index under it
AllLabelled(st) ==
  \A k \in 1..Len(st.shapes) :
     /\ st.shapes[k].colorFamily # "null"
     /\ IndexedUnder(st.colorFamilies, st.shapes[k].colorFamily,
                     st.shapes[k].id)

\* C26: right after the freeze (the freezing call's submission counted,
\* nothing selected yet) every live shape has a non-null colorFamily and
\* its id is listed in colorFamilies under that label.
AllLabelledAtFreeze ==
  [][\A e \in Engines :
       (/\ appState[e].phase = "PRE_FREEZE"
        /\ appState'[e].phase = "POST_FREEZE")
       => AllLabelled(AddSubmission(appState[e]))
    ]_vars

\* the ids of a sequence of shapes
IdsOf(shapes) == {shapes[k].id : k \in 1..Len(shapes)}

\* C27: every addColor call that returns normally removes exactly the
\* selected shape and inserts exactly its two new shapes, so the number of
\* shapes grows by exactly 1; a call that does not return normally leaves
\* the number as it is; the number of shapes is always 1 + the number of
\* calls that returned normally since initialize() (each recorded one
\* contribution).
ShapeCountGrowsByOne ==
  /\ [](\A e \in Engines :
          Len(appState[e].shapes) = 1 + Len(quiltContributions[e]))
  /\ [][\A e \in Engines :
          IF lastCall'[e].outcome = "ok" /\ ValidCallBy(e)
            THEN /\ Len(appState'[e].shapes) = Len(appState[e].shapes) + 1
                 /\ Len(quiltContributions'[e])
                      = Len(quiltContributions[e]) + 1
                 /\ IdsOf(appState[e].shapes) \ IdsOf(appState'[e].shapes)
                      = {lastCall'[e].target}
                 /\ IdsOf(appState'[e].shapes) \ IdsOf(appState[e].shapes)
                      = {lastCall'[e].shape1, lastCall'[e].shape2}
                 /\ lastCall'[e].shape1 # lastCall'[e].shape2
            ELSE /\ IdsOf(appState'[e].shapes) = IdsOf(appState[e].shapes)
                 /\ quiltContributions'[e] = quiltContributions[e]
     ]_vars

\* C27 witness: after 21 counted calls, some of which ended in an
\* exception, a call has just returned normally: the shapes are fewer than
\* 1 + submissionCount and as many as 1 + the calls that returned.
ShapeCountWitness ==
  \E e \in Engines :
    /\ appState[e].submissionCount = FREEZE_THRESHOLD + 1
    /\ lastCall[e].outcome = "ok"
    /\ Len(appState[e].shapes) < 1 + appState[e].submissionCount
    /\ Len(appState[e].shapes) = 1 + Len(quiltContributions[e])

\* the value of a two-digit hexadecimal number
ByteValue(high, low) == 16 * HexDigits[high] + HexDigits[low]

\* the squared Euclidean distance of two colours in RGB, from the last six
\* characters of each
SquaredDistance(a, b) ==
  LET channel(c, i) == ByteValue(c[Len(c) - 6 + i], c[Len(c) - 5 + i])
      d(i) == channel(a, i) - channel(b, i)
  IN  d(1) * d(1) + d(3) * d(3) + d(5) * d(5)

FailedCallBy(e) == ValidCallBy(e) /\ lastCall'[e].outcome # "ok"

InitializedBy(e) == generatedIds'[e] = generatedIds[e] + 1

\* engine e froze in this step
FrozenBy(e) ==
  /\ appState[e].phase = "PRE_FREEZE"
  /\ appState'[e].phase = "POST_FREEZE"

\* every id held by the family index map belongs to one of shapes
IndexWithin(map, shapes) ==
  \A i \in 1..Len(map) : SeqToSet(map[i].value) \subseteq IdsOf(shapes)

\* C30: initialize() on a frozen engine gives the state of a fresh engine
\* (one default shape, submissionCount 0, PRE_FREEZE, no frozen colours,
\* empty family index); so before a freeze the frozen colours and the family
\* index are empty, and after a second freeze the family index holds only
\* ids of the shapes that freeze labelled.
InitializeResetsAll ==
  /\ [](\A e \in Engines :
          appState[e].phase = "PRE_FREEZE"
            => /\ appState[e].keyShapesColorArray = <<>>
               /\ appState[e].colorFamilies = <<>>)
  /\ [][\A e \in Engines :
          /\ InitializedBy(e)
               => appState'[e] = Initialized(NewAppState, generatedIds'[e])
          /\ FrozenBy(e)
               => IndexWithin(appState'[e].colorFamilies, appState[e].shapes)
     ]_vars


\* the colours on the shapes of a state
LiveColors(st) == SeqToSet(ColorsOf(st.shapes))

\* C31: a contributed colour is never lost: the colour of every addColor
\* call that returned normally, and the default colour of the first shape,
\* are on a live shape in every later state; no addColor call takes a
\* colour off the quilt.
ContributedColorKept ==
  /\ [](\A e \in Engines :
          /\ DEFAULT_COLOR \in LiveColors(appState[e])
          /\ \A k \in 1..Len(quiltContributions[e]) :
                quiltContributions[e][k].color \in LiveColors(appState[e]))
  /\ [][\A e \in Engines :
          /\ LiveColors(appState[e]) \subseteq LiveColors(appState'[e])
          /\ lastCall'[e].outcome = "ok" /\ ValidCallBy(e)
               => lastCall'[e].color \in LiveColors(appState'[e])]_vars

\* C31 witness: a colour contributed before the freezing call is still on
\* a shape after two later calls have split shapes for other colours
ContributedColorWitness ==
  \E e \in Engines :
    \E k \in 1..Len(quiltContributions[e]) :
      /\ k + 2 <= Len(quiltContributions[e])
      /\ quiltContributions[e][k].color = CYAN_COLOR
      /\ quiltContributions[e][k + 1].color = NEAR_COLOR
      /\ quiltContributions[e][k + 2].color = NEAR_COLOR
      /\ appState[e].phase = "POST_FREEZE"
      /\ CYAN_COLOR \in LiveColors(appState[e])


\* C32: parents are never live: no live shape's parentId is the id of a
\* live shape, so isDescendantOf, which looks the parent up among the live
\* shapes, answers for the shape it was started from alone.
ParentsNeverLive ==
  \A e \in Engines :
    \A k \in 1..Len(appState[e].shapes) :
      LET shape == appState[e].shapes[k]
      IN  /\ ~HasId(appState[e].shapes, shape.parentId)
          /\ FindById(appState[e].shapes, shape.parentId) = 0
          /\ IsDescendantOf(shape, ContributedIds(e), appState[e].shapes)
               <=> shape.id \in ContributedIds(e)
          /\ shape.parentId # 0
               => ~IsDescendantOf(shape, {shape.parentId},
                                  appState[e].shapes)

\* C32 witness: a live shape was split off a contributed shape, which is
\* no longer live, and the lineage walk does not reach it
ParentsNeverLiveWitness ==
  \E e \in Engines :
    \E k \in 1..Len(appState[e].shapes) :
      LET shape == appState[e].shapes[k]
      IN  /\ shape.parentId \in ContributedIds(e)
          /\ shape.id \notin ContributedIds(e)
          /\ parentIds[e][shape.parentId] # 0
          /\ ~IsDescendantOf(shape, ContributedIds(e), appState[e].shapes)


\* an id listed in the family index under a label belongs to a shape that
\* carries the label
IndexAgrees(st) ==
  \A g \in 1..Len(st.colorFamilies) :
    \A k \in 1..Len(st.shapes) :
      st.shapes[k].id \in SeqToSet(st.colorFamilies[g].value)
        => st.shapes[k].colorFamily = st.colorFamilies[g].key

\* no id is listed in the family index under two labels
IndexDisjoint(st) ==
  \A g, h \in 1..Len(st.colorFamilies) :
    g # h => SeqToSet(st.colorFamilies[g].value)
               \cap SeqToSet(st.colorFamilies[h].value) = {}

\* C33: right after the freeze (the freezing call's submission counted,
\* nothing selected yet) an id is listed in colorFamilies under a family
\* only if the shape's colorFamily is that family, and no id is listed
\* under two families.
FamilyIndexAgrees ==
  [][\A e \in Engines :
       FrozenBy(e)
         => /\ IndexAgrees(AddSubmission(appState[e]))
            /\ IndexDisjoint(AddSubmission(appState[e]))
    ]_vars


\* the shape is a KEY_SHAPE exactly when its colour is within 35 of some
\* frozen colour
RoleMatches(shape, frozenColors) ==
  shape.type = "KEY_SHAPE"
    <=> WithinOfSome(shape.color, COLOR_SIMILARITY_THRESHOLD, frozenColors)

\* C34: in every POST_FREEZE state a live shape is a KEY_SHAPE if and only
\* if its colour is within 35 of at least one frozen colour; every
\* BORDER_SHAPE's colour is further than 35 from all frozen colours.
RoleMatchesSimilarity ==
  \A e \in Engines :
    appState[e].phase = "POST_FREEZE"
      => \A k \in 1..Len(appState[e].shapes) :
            /\ appState[e].shapes[k].type \in {"KEY_SHAPE", "BORDER_SHAPE"}
            /\ RoleMatches(appState[e].shapes[k],
                           appState[e].keyShapesColorArray)

\* C34 witness: after a call, a BORDER_SHAPE of a colour further than 35
\* from the frozen colours lies beside a KEY_SHAPE whose colour is not a
\* frozen colour but within 35 of one
RoleMatchesWitness ==
  \E e \in Engines :
    /\ lastCall[e].outcome = "ok"
    /\ appState[e].phase = "POST_FREEZE"
    /\ \E j, k \in 1..Len(appState[e].shapes) :
          /\ appState[e].shapes[j].type = "BORDER_SHAPE"
          /\ appState[e].shapes[j].color = FAR_COLOR
          /\ appState[e].shapes[k].type = "KEY_SHAPE"
          /\ appState[e].shapes[k].color = NEAR_COLOR
          /\ appState[e].shapes[k].parentId = appState[e].shapes[j].parentId


\* the shapes tile their bounding rectangle exactly and each is at least
\* MIN_SHAPE_SIZE wide and high
ValidTiling(shapes) ==
  /\ ExactTiling(shapes)
  /\ \A k \in 1..Len(shapes) :
        /\ shapes[k].position.width >= MIN_SHAPE_SIZE
        /\ shapes[k].position.height >= MIN_SHAPE_SIZE

\* C35: ensureNoGaps run on shapes that tile their bounding rectangle
\* exactly, each at least MIN_SHAPE_SIZE wide and high, changes no shape's
\* x, y, width or height.
RepairKeepsValidTiling ==
  /\ [](\A e \in Engines : ValidTiling(appState[e].shapes))
  /\ [][\A e \in Engines :
          (lastCall[e].outcome = "none" /\ lastCall'[e].outcome = "repaired")
            => /\ Len(appState'[e].shapes) = Len(appState[e].shapes)
               /\ \A k \in 1..Len(appState[e].shapes) :
                     appState'[e].shapes[k].position
                       = appState[e].shapes[k].position]_vars

\* C35 witness: ensureNoGaps has run on a tiling of three shapes, cut in
\* both directions, whose bounding rectangle does not start at the origin
RepairKeepsWitness ==
  \E e \in Engines :
    /\ lastCall[e].outcome = "repaired"
    /\ Len(appState[e].shapes) = 3
    /\ GetQuiltBounds(appState[e].shapes).minX = 50
    /\ appState[e].shapes[1].position.x # appState[e].shapes[2].position.x
    /\ appState[e].shapes[2].position.y # appState[e].shapes[3].position.y


\* every page has loaded the quilt and has no save in flight
PagesIdle == \A c \in Clients : pages[c].pc = "idle"

\* the colours the pages have added, page after page
AddedByPages == pages[1].added \o pages[2].added

\* C36: contributions of different pages are serialized before they reach
\* the stored quilt: once every page has loaded and every save has taken
\* effect, the stored quilt holds a block for each colour any page added
\* (no lost update).
NoLostUpdate ==
  PagesIdle
    => /\ quiltDoc.exists
       /\ Len(quiltDoc.blocks) >= 1 + Len(AddedByPages)
       /\ \A k \in 1..Len(AddedByPages) :
             \E j \in 1..Len(quiltDoc.blocks) :
                quiltDoc.blocks[j].color = AddedByPages[k]


\* C37: no browser leak in the image server: at most one launched browser
\* is open at any time and it is the one globalBrowser holds; whenever
\* initializeBrowser assigns a new globalBrowser, every browser launched
\* before has been closed.
NoBrowserLeak ==
  /\ [](/\ Cardinality(server.open) <= 1
        /\ server.open \subseteq {server.globalBrowser})
  /\ [][server'.globalBrowser # server.globalBrowser
          => server'.open = {server'.globalBrowser}]_vars

=============================================================================
